---------------------------- MODULE Spec2Model ----------------------------
(***************************************************************************)
(* A model of the arduino-cli instance registry (commands/instances.go)    *)
(* and of the Init and Upgrade orchestration it drives.                    *)
(*                                                                         *)
(* Three specifications share the variables:                               *)
(*   Spec         the process-wide registry: Create, Destroy, and the      *)
(*                instance resolution of every handler bound to an id;     *)
(*   SpecInit     the Init handler, step by step, on one instance;         *)
(*   SpecUpgrade  the Upgrade handler, step by step, on one instance.      *)
(***************************************************************************)
EXTENDS Integers, Sequences, FiniteSets, TLC

VARIABLES
    instances,       \* var instances = map[int32]*CoreInstance{}
    instancesCount,  \* var instancesCount int32 = 1
    dirs,            \* directories and temporary files present on the filesystem
    disk,            \* per data directory: what is installed / cached / readable
    pc,              \* position of the running handler ("idle": none running)
    cur,             \* the running handler's request and locals
    sink,            \* events delivered to the progress callbacks of the call
    oplog,           \* history: package-manager operations attempted by the call
    call,            \* the last handler that returned: request and result
    created,         \* history: ids returned by Create, in order
    destroyed,       \* history: ids removed by Destroy
    snap             \* history: graph and disk at the end of the previous Init

vars == <<instances, instancesCount, dirs, disk, pc, cur, sink, oplog, call,
          created, destroyed, snap>>

-----------------------------------------------------------------------------
(* Bounds of the model.                                                     *)

MaxCreates == 2

-----------------------------------------------------------------------------
(* int32 arithmetic of the id counter.                                      *)

MaxInt32 == 2147483647

(* instancesCount++ on an int32: the successor wraps to the least value.    *)
Int32Succ(x) == IF x = MaxInt32 THEN (0 - MaxInt32) - 1 ELSE x + 1

Range(s) == {s[i] : i \in DOMAIN s}

-----------------------------------------------------------------------------
(* Configuration sources.  Each names its own downloads and data            *)
(* directory; "" is the request without a configuration file.               *)

Configs == {"cfgA", "cfgB"}

DownloadsDir(cfg) == <<cfg, "downloads">>
PackagesDir(cfg)  == <<cfg, "packages">>

EmptyPM == [releases |-> {}, tools |-> {}, toolReleases |-> {},
            installed |-> {}, installedTools |-> {}]

EmptyLM == [libraries |-> {}, index |-> {}]

EmptyDisk == [platforms |-> {}, tools |-> {}, libs |-> {}, cache |-> {},
              indexes |-> {}, corrupt |-> {}, dest |-> "absent",
              stored |-> << >>]

NoCall == [op |-> "none", id |-> {}, dead |-> FALSE, args |-> <<>>, err |-> "",
           out |-> {}]

Idle == [op |-> "none", id |-> 0]

-----------------------------------------------------------------------------
(* Registry lookups.                                                        *)

GetInstance(id) == IF id \in DOMAIN instances THEN {instances[id]} ELSE {}

GetPackageManager(id) ==
    IF id \notin DOMAIN instances THEN {} ELSE {instances[id].packageManager}

GetLibraryManager(id) ==
    IF id \notin DOMAIN instances THEN {} ELSE {instances[id].librariesManager}

(* The ids a client may present: every id handed out so far, the next one   *)
(* the counter would hand out, and zero.                                    *)
IdInputs == Range(created) \cup {instancesCount, 0}

(* Whether the id was destroyed or was never returned by Create.            *)
Dead(id) == id \notin Range(created) \/ id \in destroyed

-----------------------------------------------------------------------------
(* Create.                                                                  *)

(* paths.MkdirAll on a directory that may already exist.                    *)
DirAvailable(d, mkdirOk) == d \in dirs \/ mkdirOk

CreateErrorNoDataDirCheck(configFile, mkDownloads, mkData) ==
    IF configFile = "" THEN "MissingConfigFile"
    ELSE IF ~DirAvailable(DownloadsDir(configFile), mkDownloads)
         THEN "PermissionDenied"
         ELSE ""

CreateError(configFile, mkDownloads, mkData) ==
    IF configFile = "" THEN "MissingConfigFile"
    ELSE IF ~DirAvailable(DownloadsDir(configFile), mkDownloads)
         THEN "PermissionDenied"
         ELSE IF ~DirAvailable(PackagesDir(configFile), mkData)
              THEN "PermissionDenied"
              ELSE ""

(* The directories on disk when Create returns: the downloads directory is  *)
(* made before the data directory is tried.                                 *)
DirsAfterCreate(configFile, mkDownloads, mkData) ==
    IF configFile = "" THEN dirs
    ELSE IF ~DirAvailable(DownloadsDir(configFile), mkDownloads) THEN dirs
         ELSE IF ~DirAvailable(PackagesDir(configFile), mkData)
              THEN dirs \cup {DownloadsDir(configFile)}
              ELSE dirs \cup {DownloadsDir(configFile), PackagesDir(configFile)}

NewInstance(id, configFile) ==
    [id |-> id, Settings |-> configFile,
     packageManager |-> EmptyPM, librariesManager |-> EmptyLM]

Create(configFile, mkDownloads, mkData) ==
    /\ pc = "idle"
    /\ Len(created) < MaxCreates
    /\ LET err == CreateError(configFile, mkDownloads, mkData)
           instanceID == instancesCount
       IN  /\ dirs' = DirsAfterCreate(configFile, mkDownloads, mkData)
           /\ IF err # ""
              THEN /\ UNCHANGED <<instances, instancesCount, created>>
                   /\ call' = [op |-> "Create", id |-> {}, dead |-> FALSE,
                               args |-> <<configFile, mkDownloads, mkData>>,
                               err |-> err, out |-> {}]
              ELSE /\ instances' = [i \in DOMAIN instances \cup {instanceID} |->
                                      IF i = instanceID
                                      THEN NewInstance(instanceID, configFile)
                                      ELSE instances[i]]
                   /\ instancesCount' = Int32Succ(instancesCount)
                   /\ created' = Append(created, instanceID)
                   /\ call' = [op |-> "Create", id |-> {}, dead |-> FALSE,
                               args |-> <<configFile, mkDownloads, mkData>>,
                               err |-> "", out |-> {instanceID}]
    /\ UNCHANGED <<disk, pc, cur, sink, oplog, destroyed, snap>>

-----------------------------------------------------------------------------
(* Destroy.                                                                 *)

Destroy(id) ==
    /\ pc = "idle"
    /\ IF id \notin DOMAIN instances
       THEN /\ call' = [op |-> "Destroy", id |-> {id}, dead |-> Dead(id), args |-> <<>>,
                        err |-> "InvalidInstance", out |-> {}]
            /\ UNCHANGED <<instances, destroyed>>
       ELSE /\ instances' = [i \in DOMAIN instances \ {id} |-> instances[i]]
            /\ destroyed' = destroyed \cup {id}
            /\ call' = [op |-> "Destroy", id |-> {id}, dead |-> Dead(id), args |-> <<>>,
                        err |-> "", out |-> {}]
    /\ UNCHANGED <<instancesCount, dirs, disk, pc, cur, sink, oplog, created, snap>>

-----------------------------------------------------------------------------
(* The package index used as fixture: vendorA:arch1 and vendorA:arch2, two  *)
(* releases each, and the tools each release depends on (in index order).   *)

IndexReleases == {<<"arch1", 1>>, <<"arch1", 2>>, <<"arch2", 1>>, <<"arch2", 2>>}

IndexToolReleases == {<<"toolX", 1>>, <<"toolX", 2>>, <<"toolY", 1>>, <<"toolY", 2>>}

Dependencies(r) ==
    CASE r = <<"arch1", 1>> -> << <<"toolX", 1>> >>
      [] r = <<"arch1", 2>> -> << <<"toolX", 2>> >>
      [] r = <<"arch2", 1>> -> << <<"toolX", 1>>, <<"toolY", 1>> >>
      [] r = <<"arch2", 2>> -> << <<"toolX", 2>>, <<"toolY", 2>> >>
      [] OTHER -> << >>

(* The library index: the releases of libL.                                 *)
IndexLibraries == {<<"libL", 1>>, <<"libL", 2>>}

-----------------------------------------------------------------------------
(* Package manager and library manager queries.                             *)

MaxVersion(S) == CHOOSE r \in S : \A q \in S : q[2] <= r[2]

PlatformsOf(pm) == {r[1] : r \in pm.releases}

(* The installed release of a platform (the highest, when a failed          *)
(* rollback left two), or none.                                             *)
GetInstalledPlatformRelease(pm, platform) ==
    LET S == {r \in pm.installed : r[1] = platform}
    IN  IF S = {} THEN {} ELSE {MaxVersion(S)}

GetLatestRelease(pm, platform) ==
    LET S == {r \in pm.releases : r[1] = platform}
    IN  IF S = {} THEN {} ELSE {MaxVersion(S)}

(* The tool releases a platform release needs; an error when the index      *)
(* does not know one of them.                                               *)
FindPlatformReleaseDependencies(pm, r) ==
    IF Range(Dependencies(r)) \subseteq pm.toolReleases
    THEN [err |-> FALSE, tools |-> Dependencies(r)]
    ELSE [err |-> TRUE, tools |-> << >>]

(* A tool is required iff an installed platform release lists it.           *)
IsToolRequired(pm, tool) ==
    \E r \in pm.installed : tool \in Range(Dependencies(r))

(* The newer release the library index holds for an installed library.      *)
FindLibraryUpdate(lm, lib) ==
    LET S == {l \in lm.index : l[1] = lib[1] /\ l[2] > lib[2]}
    IN  IF S = {} THEN {} ELSE {MaxVersion(S)}

-----------------------------------------------------------------------------
(* The running handler: its instance, and how it returns.                   *)

PMof(id) == instances[id].packageManager
LMof(id) == instances[id].librariesManager
(* The data directory of an instance is the one its own settings name.     *)
DataOfFirstInstance(id) == "cfgA"

DataOf(id) == instances[id].Settings

(* A handler that returns before it has set up any local state.             *)
Reject(op, id, args, err) ==
    /\ call' = [op |-> op, id |-> {id}, dead |-> Dead(id), args |-> args,
                err |-> err, out |-> {}]
    /\ pc' = "idle"
    /\ sink' = << >>
    /\ oplog' = << >>
    /\ UNCHANGED cur

(* The running handler returns err ("" is nil).                             *)
Return(err) ==
    /\ call' = [op |-> cur.op, id |-> {cur.id}, dead |-> FALSE, args |-> cur.args,
                err |-> err, out |-> {}]
    /\ pc' = "idle"

-----------------------------------------------------------------------------
(* Upgrade: entry and the library loop.                                     *)

UpgradeResolve(id, downloaderConfigOk) ==
    IF ~downloaderConfigOk THEN "InvalidDownloaderConfig"
    ELSE IF GetLibraryManager(id) = {} THEN "InvalidInstance"
         ELSE ""

(* The locals of Upgrade once its checks have passed.                       *)
UpgradeLocals(id, skipPostInstall, downloaderConfigOk) ==
    [op |-> "Upgrade", id |-> id,
     args |-> <<skipPostInstall, downloaderConfigOk>>,
     skip |-> skipPostInstall,
     libTodo |-> LMof(id).libraries,
     platTodo |-> {},
     installedRelease |-> << >>, latest |-> << >>,
     installedTools |-> << >>, toolsToInstall |-> << >>,
     i |-> 0,
     entry |-> PMof(id), entryLM |-> LMof(id),
     start |-> EmptyPM,
     startDisk |-> EmptyDisk, mark |-> 0]

UpgradeEnter(id, skipPostInstall, downloaderConfigOk) ==
    /\ pc = "idle"
    /\ LET err == UpgradeResolve(id, downloaderConfigOk)
       IN  IF err # ""
           THEN Reject("Upgrade", id, <<skipPostInstall, downloaderConfigOk>>, err)
           ELSE /\ pc' = "u_libs"
                /\ cur' = UpgradeLocals(id, skipPostInstall, downloaderConfigOk)
                /\ sink' = << >>
                /\ oplog' = << >>
                /\ call' = NoCall
    /\ UNCHANGED <<instances, instancesCount, dirs, disk, created, destroyed, snap>>

(* InstallPrerequisiteCheck: the release is already among the user          *)
(* libraries.                                                               *)
AlreadyInstalledNever(lm, rel) == FALSE
AlreadyInstalled(lm, rel) ==
    \E l \in lm.libraries : l[3] = "user" /\ l[1] = rel[1] /\ l[2] = rel[2]

(* One iteration of the loop over lm.Libraries.                             *)
UpgradeLibrary(library, downloadOk, prerequisiteOk, installOk) ==
    /\ pc = "u_libs"
    /\ library \in cur.libTodo
    /\ LET lm == LMof(cur.id)
           available == FindLibraryUpdate(lm, library)
           rel == CHOOSE a \in available : TRUE
           replacing == IF \E l \in lm.libraries : l[3] = "user" /\ l[1] = rel[1]
                        THEN << <<"Replacing", rel>> >> ELSE << >>
           continue == /\ cur' = [cur EXCEPT !.libTodo = @ \ {library}]
                       /\ UNCHANGED <<pc, call>>
       IN  IF library[3] # "user" \/ available = {}
           THEN continue /\ UNCHANGED <<sink, oplog, disk>>
           ELSE IF ~downloadOk
           THEN /\ sink' = Append(sink, <<"Downloading", rel>>)
                /\ oplog' = Append(oplog, <<"download", "library", rel, FALSE>>)
                /\ Return("FailedDownload")
                /\ UNCHANGED <<cur, disk>>
           ELSE IF AlreadyInstalled(lm, rel)
           THEN /\ sink' = sink \o << <<"Downloading", rel>>, <<"Installing", rel>>,
                                      <<"Already installed", rel>> >>
                /\ oplog' = Append(oplog, <<"download", "library", rel, TRUE>>)
                /\ disk' = [disk EXCEPT ![DataOf(cur.id)].cache = @ \cup {rel}]
                /\ continue
           ELSE IF ~prerequisiteOk \/ ~installOk
           THEN /\ sink' = sink \o << <<"Downloading", rel>>, <<"Installing", rel>> >>
                               \o (IF prerequisiteOk THEN replacing ELSE << >>)
                /\ oplog' = oplog \o
                       (<< <<"download", "library", rel, TRUE>> >> \o
                        (IF prerequisiteOk THEN << <<"install", "library", rel, FALSE>> >>
                                           ELSE << >>))
                /\ disk' = [disk EXCEPT ![DataOf(cur.id)].cache = @ \cup {rel}]
                /\ Return("FailedLibraryInstall")
                /\ UNCHANGED cur
           ELSE /\ sink' = sink \o << <<"Downloading", rel>>, <<"Installing", rel>> >>
                               \o replacing \o << <<"Installed", rel>> >>
                /\ oplog' = oplog \o << <<"download", "library", rel, TRUE>>,
                                        <<"install", "library", rel, TRUE>> >>
                /\ disk' = [disk EXCEPT
                              ![DataOf(cur.id)].cache = @ \cup {rel},
                              ![DataOf(cur.id)].libs =
                                  {l \in @ : l[1] # rel[1]} \cup {rel}]
                /\ continue
    /\ UNCHANGED <<instances, instancesCount, dirs, created, destroyed, snap>>

(* The library loop is over: the package manager is looked up and the loop  *)
(* over its platforms starts.                                               *)
UpgradeLibrariesDone ==
    /\ pc = "u_libs"
    /\ cur.libTodo = {}
    /\ IF GetPackageManager(cur.id) = {}
       THEN Return("InvalidInstance") /\ UNCHANGED cur
       ELSE /\ pc' = "u_plats"
            /\ cur' = [cur EXCEPT !.platTodo = PlatformsOf(PMof(cur.id))]
            /\ UNCHANGED call
    /\ UNCHANGED <<instances, instancesCount, dirs, disk, sink, oplog, created,
                   destroyed, snap>>

-----------------------------------------------------------------------------
(* Upgrade: the transaction of one outdated platform.                       *)

(* The statements of the transaction, in the order the code runs them.      *)
UpgradeOrderInstallFirst ==
    <<"u_dl_tools", "u_inst_tools", "u_inst_plat", "u_dl_plat", "u_uninst",
      "u_gc", "u_post">>

UpgradeOrderNoCleanup ==
    <<"u_dl_tools", "u_dl_plat", "u_inst_tools", "u_inst_plat", "u_uninst",
      "u_post">>

UpgradeOrder ==
    <<"u_dl_tools", "u_dl_plat", "u_inst_tools", "u_inst_plat", "u_uninst",
      "u_gc", "u_post">>

(* A loop over an empty list runs no iteration.                             *)
StageEmpty(stage, c) ==
    \/ stage \in {"u_dl_tools", "u_inst_tools"} /\ c.toolsToInstall = << >>
    \/ stage = "u_gc" /\ c.installedTools = << >>

RECURSIVE FirstStageFrom(_, _)
FirstStageFrom(k, c) ==
    IF k > Len(UpgradeOrder) THEN "u_plats"
    ELSE IF StageEmpty(UpgradeOrder[k], c) THEN FirstStageFrom(k + 1, c)
         ELSE UpgradeOrder[k]

StageIndex(stage) == CHOOSE k \in 1..Len(UpgradeOrder) : UpgradeOrder[k] = stage

NextStage(stage, c) == FirstStageFrom(StageIndex(stage) + 1, c)

(* The loop index a stage starts with, and the platform loop's bookkeeping  *)
(* when the transaction is over.                                            *)
Advance(c, stage) ==
    LET next == NextStage(stage, c)
    IN  [c EXCEPT !.i = 1,
                  !.platTodo = IF next = "u_plats" THEN @ \ {c.latest[1]} ELSE @]

(* One iteration of a loop over the list s, at index cur.i.                 *)
LoopOn(stage, s) ==
    IF cur.i < Len(s)
    THEN /\ pc' = stage
         /\ cur' = [cur EXCEPT !.i = @ + 1]
    ELSE /\ pc' = NextStage(stage, cur)
         /\ cur' = Advance(cur, stage)

(* One iteration of the loop over the platforms of pm.Packages: a platform  *)
(* that is not installed, or is at its latest release, is passed over;      *)
(* otherwise the transaction is planned.                                    *)
UpgradePlatform(platform) ==
    /\ pc = "u_plats"
    /\ platform \in cur.platTodo
    /\ LET pm == PMof(cur.id)
           installedRelease == GetInstalledPlatformRelease(pm, platform)
           latest == GetLatestRelease(pm, platform)
           old == CHOOSE r \in installedRelease : TRUE
           new == CHOOSE r \in latest : TRUE
           installedDeps == FindPlatformReleaseDependencies(pm, old)
           deps == FindPlatformReleaseDependencies(pm, new)
           present == SelectSeq(deps.tools, LAMBDA t : t \in pm.installedTools)
           toolsToInstall ==
               SelectSeq(deps.tools, LAMBDA t : t \notin pm.installedTools)
           planned == [cur EXCEPT !.installedRelease = old, !.latest = new,
                                  !.installedTools = installedDeps.tools,
                                  !.toolsToInstall = toolsToInstall,
                                  !.i = 1,
                                  !.start = pm,
                                  !.startDisk = disk[DataOf(cur.id)],
                                  !.mark = Len(oplog)]
       IN  IF installedRelease = {} \/ latest = {} \/ latest = installedRelease
           THEN /\ cur' = [cur EXCEPT !.platTodo = @ \ {platform}]
                /\ UNCHANGED <<pc, sink, call>>
           ELSE IF installedDeps.err
           THEN /\ Return("NotFound")
                /\ cur' = [planned EXCEPT !.installedTools = << >>,
                                          !.toolsToInstall = << >>]
                /\ UNCHANGED sink
           ELSE IF deps.err
           THEN /\ Return("NotFound")
                /\ cur' = [planned EXCEPT !.installedTools = << >>,
                                          !.toolsToInstall = << >>]
                /\ sink' = Append(sink, <<"Downloading", new>>)
           ELSE /\ sink' = sink \o << <<"Downloading", new>> >> \o
                           [k \in 1..Len(present) |->
                               <<"Tool already installed", present[k]>>]
                /\ pc' = FirstStageFrom(1, planned)
                /\ cur' = planned
                /\ UNCHANGED call
    /\ UNCHANGED <<instances, instancesCount, dirs, disk, oplog, created,
                   destroyed, snap>>

(* Every platform was visited.                                              *)
UpgradeReturn ==
    /\ pc = "u_plats"
    /\ cur.platTodo = {}
    /\ Return("")
    /\ UNCHANGED <<instances, instancesCount, dirs, disk, cur, sink, oplog,
                   created, destroyed, snap>>

UpgradeDownloadTool(ok) ==
    /\ pc = "u_dl_tools"
    /\ LET tool == cur.toolsToInstall[cur.i]
       IN  /\ oplog' = Append(oplog, <<"download", "tool", tool, ok>>)
           /\ IF ok
              THEN /\ disk' = [disk EXCEPT ![DataOf(cur.id)].cache = @ \cup {tool}]
                   /\ LoopOn("u_dl_tools", cur.toolsToInstall)
                   /\ UNCHANGED <<sink, call>>
              ELSE /\ sink' = Append(sink, <<"Error downloading tool", tool>>)
                   /\ Return("FailedDownload")
                   /\ UNCHANGED <<disk, cur>>
    /\ UNCHANGED <<instances, instancesCount, dirs, created, destroyed, snap>>

UpgradeDownloadPlatform(ok) ==
    /\ pc = "u_dl_plat"
    /\ oplog' = Append(oplog, <<"download", "platform", cur.latest, ok>>)
    /\ IF ok
       THEN /\ disk' = [disk EXCEPT ![DataOf(cur.id)].cache = @ \cup {cur.latest}]
            /\ sink' = Append(sink, <<"Updating platform", cur.latest>>)
            /\ pc' = NextStage("u_dl_plat", cur)
            /\ cur' = Advance(cur, "u_dl_plat")
            /\ UNCHANGED call
       ELSE /\ Return("FailedDownload")
            /\ UNCHANGED <<disk, cur, sink>>
    /\ UNCHANGED <<instances, instancesCount, dirs, created, destroyed, snap>>

(* The tool lands on disk; the graph learns of it at the next LoadHardware. *)
UpgradeInstallTool(ok) ==
    /\ pc = "u_inst_tools"
    /\ LET tool == cur.toolsToInstall[cur.i]
       IN  /\ oplog' = Append(oplog, <<"install", "tool", tool, ok>>)
           /\ IF ok
              THEN /\ disk' = [disk EXCEPT ![DataOf(cur.id)].tools = @ \cup {tool}]
                   /\ LoopOn("u_inst_tools", cur.toolsToInstall)
                   /\ UNCHANGED <<sink, call>>
              ELSE /\ sink' = Append(sink, <<"Error installing tool", tool>>)
                   /\ Return("FailedInstall")
                   /\ UNCHANGED <<disk, cur>>
    /\ UNCHANGED <<instances, instancesCount, dirs, created, destroyed, snap>>

(* What Upgrade does when pm.InstallPlatform(latest) fails.                  *)
PlatformInstallFailureIgnored ==
    [err |-> "",
     events |-> << <<"Error installing platform", cur.latest>> >>]

PlatformInstallFailure ==
    [err |-> "FailedInstall",
     events |-> << <<"Error installing platform", cur.latest>> >>]

UpgradeInstallPlatform(ok) ==
    /\ pc = "u_inst_plat"
    /\ oplog' = Append(oplog, <<"install", "platform", cur.latest, ok>>)
    /\ IF ok
       THEN /\ disk' = [disk EXCEPT ![DataOf(cur.id)].platforms = @ \cup {cur.latest}]
            /\ instances' = [instances EXCEPT
                  ![cur.id].packageManager.installed = @ \cup {cur.latest}]
            /\ pc' = NextStage("u_inst_plat", cur)
            /\ cur' = Advance(cur, "u_inst_plat")
            /\ UNCHANGED <<sink, call>>
       ELSE /\ sink' = sink \o PlatformInstallFailure.events
            /\ IF PlatformInstallFailure.err # ""
               THEN Return(PlatformInstallFailure.err) /\ UNCHANGED cur
               ELSE /\ pc' = NextStage("u_inst_plat", cur)
                    /\ cur' = Advance(cur, "u_inst_plat")
                    /\ UNCHANGED call
            /\ UNCHANGED <<disk, instances>>
    /\ UNCHANGED <<instancesCount, dirs, created, destroyed, snap>>

(* What follows a failed uninstall of the previous release: the rollback.   *)
StageAfterUninstallFailureNoRollback == NextStage("u_uninst", cur)

StageAfterUninstallFailure == "u_rollback"

(* Uninstall the previously installed release.                              *)
UpgradeUninstallOld(ok) ==
    /\ pc = "u_uninst"
    /\ oplog' = Append(oplog, <<"uninstall", "platform", cur.installedRelease, ok>>)
    /\ IF ok
       THEN /\ disk' = [disk EXCEPT
                  ![DataOf(cur.id)].platforms = @ \ {cur.installedRelease}]
            /\ instances' = [instances EXCEPT
                  ![cur.id].packageManager.installed = @ \ {cur.installedRelease}]
            /\ pc' = NextStage("u_uninst", cur)
            /\ cur' = Advance(cur, "u_uninst")
            /\ UNCHANGED sink
       ELSE /\ sink' = Append(sink, <<"Error upgrading platform",
                                      cur.installedRelease>>)
            /\ pc' = StageAfterUninstallFailure
            /\ cur' = IF StageAfterUninstallFailure = "u_rollback" THEN cur
                      ELSE Advance(cur, "u_uninst")
            /\ UNCHANGED <<disk, instances>>
    /\ UNCHANGED <<instancesCount, dirs, call, created, destroyed, snap>>

(* What Upgrade does when the rollback fails too.                           *)
RollbackFailure ==
    [err |-> "FailedInstall",
     events |-> << <<"Error rolling-back changes", cur.latest>> >>]

(* Rollback: uninstall the release that was just installed.                 *)
UpgradeRollback(ok) ==
    /\ pc = "u_rollback"
    /\ oplog' = Append(oplog, <<"uninstall", "platform", cur.latest, ok>>)
    /\ IF ok
       THEN /\ disk' = [disk EXCEPT ![DataOf(cur.id)].platforms = @ \ {cur.latest}]
            /\ instances' = [instances EXCEPT
                  ![cur.id].packageManager.installed = @ \ {cur.latest}]
            /\ pc' = NextStage("u_uninst", cur)
            /\ cur' = Advance(cur, "u_uninst")
            /\ UNCHANGED <<sink, call>>
       ELSE /\ sink' = sink \o RollbackFailure.events
            /\ IF RollbackFailure.err # ""
               THEN Return(RollbackFailure.err) /\ UNCHANGED cur
               ELSE /\ pc' = NextStage("u_uninst", cur)
                    /\ cur' = Advance(cur, "u_uninst")
                    /\ UNCHANGED call
            /\ UNCHANGED <<disk, instances>>
    /\ UNCHANGED <<instancesCount, dirs, created, destroyed, snap>>

(* The test of the cleanup loop: the tool is no more required.              *)
ToolUnusedAlways(pm, tool) == TRUE

ToolUnusedNever(pm, tool) == FALSE

ToolUnused(pm, tool) == ~IsToolRequired(pm, tool)

(* One iteration of the loop over the tools of the previous release.        *)
UpgradeUninstallTool(ok) ==
    /\ pc = "u_gc"
    /\ LET tool == cur.installedTools[cur.i]
       IN  IF ~ToolUnused(PMof(cur.id), tool)
           THEN /\ LoopOn("u_gc", cur.installedTools)
                /\ UNCHANGED <<disk, instances, sink, oplog, call>>
           ELSE /\ oplog' = Append(oplog, <<"uninstall", "tool", tool, ok>>)
                /\ IF ok
                   THEN /\ disk' = [disk EXCEPT
                              ![DataOf(cur.id)].tools = @ \ {tool}]
                        /\ instances' = [instances EXCEPT
                              ![cur.id].packageManager.installedTools = @ \ {tool}]
                        /\ sink' = sink \o << <<"Uninstalling", tool>>,
                                              <<"uninstalled", tool>> >>
                        /\ LoopOn("u_gc", cur.installedTools)
                        /\ UNCHANGED call
                   ELSE /\ sink' = Append(sink, <<"Uninstalling", tool>>)
                        /\ Return("FailedInstall")
                        /\ UNCHANGED <<disk, instances, cur>>
    /\ UNCHANGED <<instancesCount, dirs, created, destroyed, snap>>

(* The error Upgrade returns when the post-install script failed: none.     *)
PostInstallErrorFatal(ok) == IF ok THEN "" ELSE "FailedInstall"

PostInstallError(ok) == ""

(* The post-install script of the new release, unless the caller opted out; *)
(* a failure is a warning.                                                  *)
UpgradePostInstall(ok) ==
    /\ pc = "u_post"
    /\ IF ~cur.skip
       THEN /\ oplog' = Append(oplog, <<"postinstall", "platform", cur.latest, ok>>)
            /\ sink' = sink \o
                  (IF ok THEN << <<"Configuring platform", cur.latest>> >>
                   ELSE << <<"Configuring platform", cur.latest>>,
                           <<"WARNING: cannot run post install", cur.latest>> >>)
       ELSE /\ sink' = Append(sink, <<"Skipping platform configuration",
                                      cur.latest>>)
            /\ UNCHANGED oplog
    /\ IF ~cur.skip /\ PostInstallError(ok) # ""
       THEN Return(PostInstallError(ok)) /\ UNCHANGED cur
       ELSE /\ pc' = NextStage("u_post", cur)
            /\ cur' = Advance(cur, "u_post")
            /\ UNCHANGED call
    /\ UNCHANGED <<instances, instancesCount, dirs, disk, created, destroyed,
                   snap>>

-----------------------------------------------------------------------------
(* SpecUpgrade: one Upgrade call on an instance that was created and        *)
(* initialised, from every installed set of the family below.               *)

(* At most one release of a platform is installed.                          *)
InstalledChoices ==
    {P \in SUBSET IndexReleases : \A r, q \in P : r[1] = q[1] => r = q}

ToolsNeeded(P) == UNION {Range(Dependencies(r)) : r \in P}

(* The user and built-in libraries found by the last scan.                  *)
LibraryChoices ==
    { {}, {<<"libL", 1, "user">>}, {<<"libL", 2, "user">>},
      {<<"libL", 1, "user">>, <<"libL", 2, "user">>},
      {<<"libL", 1, "builtin">>} }

(* The index knows every tool release, or lacks the newest toolY.           *)
ToolIndexChoices == {IndexToolReleases, IndexToolReleases \ {<<"toolY", 2>>}}

LoadedInstance(P, T, known, libs) ==
    [id |-> 1, Settings |-> "cfgA",
     packageManager |-> [releases |-> IndexReleases,
                         tools |-> {t[1] : t \in known},
                         toolReleases |-> known,
                         installed |-> P,
                         installedTools |-> T],
     librariesManager |-> [libraries |-> libs, index |-> IndexLibraries]]

InitUpgrade ==
    \E P \in InstalledChoices, known \in ToolIndexChoices,
       libs \in LibraryChoices, extra \in {{}, {<<"toolX", 2>>}} :
        LET T == ToolsNeeded(P) \cup extra
        IN  /\ instances = (1 :> LoadedInstance(P, T, known, libs))
            /\ instancesCount = 2
            /\ dirs = {DownloadsDir("cfgA"), PackagesDir("cfgA")}
            /\ disk = [c \in Configs |->
                         IF c = "cfgA"
                         THEN [EmptyDisk EXCEPT
                                 !.platforms = P, !.tools = T,
                                 !.libs = {<<l[1], l[2]>> : l \in
                                             {x \in libs : x[3] = "user"}}]
                         ELSE EmptyDisk]
            /\ pc = "idle"
            /\ cur = Idle
            /\ sink = << >>
            /\ oplog = << >>
            /\ call = NoCall
            /\ created = <<1>>
            /\ destroyed = {}
            /\ snap = << >>

NextUpgrade ==
    \/ /\ call = NoCall
       /\ \E id \in IdInputs, skipPostInstall \in BOOLEAN,
             downloaderConfigOk \in BOOLEAN :
              UpgradeEnter(id, skipPostInstall, downloaderConfigOk)
    \/ /\ pc = "u_libs"
       /\ \E library \in cur.libTodo, downloadOk, prerequisiteOk, installOk \in BOOLEAN :
              UpgradeLibrary(library, downloadOk, prerequisiteOk, installOk)
    \/ UpgradeLibrariesDone
    \/ /\ pc = "u_plats"
       /\ \E platform \in cur.platTodo : UpgradePlatform(platform)
    \/ UpgradeReturn
    \/ \E ok \in BOOLEAN : UpgradeDownloadTool(ok)
    \/ \E ok \in BOOLEAN : UpgradeDownloadPlatform(ok)
    \/ \E ok \in BOOLEAN : UpgradeInstallTool(ok)
    \/ \E ok \in BOOLEAN : UpgradeInstallPlatform(ok)
    \/ \E ok \in BOOLEAN : UpgradeUninstallOld(ok)
    \/ \E ok \in BOOLEAN : UpgradeRollback(ok)
    \/ \E ok \in BOOLEAN : UpgradeUninstallTool(ok)
    \/ \E ok \in BOOLEAN : UpgradePostInstall(ok)

SpecUpgrade == InitUpgrade /\ [][NextUpgrade]_vars

-----------------------------------------------------------------------------
(* Properties of Upgrade (SpecUpgrade).                                     *)

(* The instance Upgrade runs on, and what the running transaction did.      *)
InUpgrade == cur.op = "Upgrade"
InTransaction == InUpgrade /\ cur.latest # << >>
TxnOps == SubSeq(oplog, cur.mark + 1, Len(oplog))
Before(ops, j, entry) == \E k \in 1..(j - 1) : ops[k] = entry
Returned == pc = "idle" /\ call.op = "Upgrade"
NoFailure == call.err = "" /\ \A j \in DOMAIN oplog : oplog[j][4]
PackageOps == SelectSeq(oplog, LAMBDA e : e[2] \in {"tool", "platform"}
                                          /\ e[1] # "postinstall")

(* The scenario: vendorA:arch1 at 1.0.0 with toolX@1, nothing else.         *)
ScenarioEntry ==
    /\ InUpgrade
    /\ cur.entry.installed = {<<"arch1", 1>>}
    /\ cur.entry.installedTools = {<<"toolX", 1>>}

(* C6: in the scenario a failure-free Upgrade downloads toolX@2 and the     *)
(* platform archive, installs toolX@2, installs arch1@2, uninstalls         *)
(* arch1@1, then uninstalls toolX@1, and ends with exactly arch1@2 and      *)
(* toolX@2 installed.                                                       *)
C6_UpgradeScenario ==
    (Returned /\ ScenarioEntry /\ NoFailure) =>
        /\ PackageOps = << <<"download", "tool", <<"toolX", 2>>, TRUE>>,
                           <<"download", "platform", <<"arch1", 2>>, TRUE>>,
                           <<"install", "tool", <<"toolX", 2>>, TRUE>>,
                           <<"install", "platform", <<"arch1", 2>>, TRUE>>,
                           <<"uninstall", "platform", <<"arch1", 1>>, TRUE>>,
                           <<"uninstall", "tool", <<"toolX", 1>>, TRUE>> >>
        /\ disk[DataOf(cur.id)].platforms = {<<"arch1", 2>>}
        /\ disk[DataOf(cur.id)].tools = {<<"toolX", 2>>}
        /\ PMof(cur.id).installed = {<<"arch1", 2>>}
        /\ <<"toolX", 1>> \notin PMof(cur.id).installedTools

C6_Witness ==
    /\ Returned /\ ScenarioEntry /\ NoFailure
    /\ Len(PackageOps) = 6
    /\ <<"arch1", 1>> \notin disk[DataOf(cur.id)].platforms

(* C7: within a transaction every download (the tools to install, then the  *)
(* platform archive) is done before the first install, the tools are        *)
(* installed before the platform, the old release is uninstalled only       *)
(* after the new one was installed, and a failed download leaves the        *)
(* installed tools and platforms as they were when the transaction began.   *)
C7_DownloadsBeforeInstalls ==
    InTransaction =>
        LET ops == TxnOps
            pm == PMof(cur.id)
        IN  /\ \A j \in DOMAIN ops :
                  /\ ops[j][1] = "install" =>
                        /\ \A t \in Range(cur.toolsToInstall) :
                              Before(ops, j, <<"download", "tool", t, TRUE>>)
                        /\ Before(ops, j, <<"download", "platform", cur.latest, TRUE>>)
                  /\ (ops[j][1] = "install" /\ ops[j][2] = "platform") =>
                        \A t \in Range(cur.toolsToInstall) :
                            Before(ops, j, <<"install", "tool", t, TRUE>>)
                  /\ (ops[j][1] = "uninstall" /\ ops[j][3] = cur.installedRelease) =>
                        Before(ops, j, <<"install", "platform", cur.latest, TRUE>>)
            /\ (Returned /\ call.err = "FailedDownload") =>
                  /\ pm.installed = cur.start.installed
                  /\ pm.installedTools = cur.start.installedTools
                  /\ disk[DataOf(cur.id)].platforms = cur.startDisk.platforms
                  /\ disk[DataOf(cur.id)].tools = cur.startDisk.tools

C7_Witness ==
    /\ InTransaction /\ Returned /\ call.err = "FailedDownload"
    /\ Len(cur.toolsToInstall) = 2
    /\ TxnOps[Len(TxnOps)] = <<"download", "platform", cur.latest, FALSE>>

(* C8: a failed uninstall of the previous release is followed at once by    *)
(* the rollback, the uninstall of the new release; a rollback that          *)
(* succeeded leaves the new release uninstalled, and one that failed makes  *)
(* Upgrade return FailedInstall with both failures on the sink, the         *)
(* rollback's under its own message.                                        *)
C8_RollbackOnUninstallFailure ==
    InTransaction =>
        LET ops == TxnOps
            old == cur.installedRelease
            new == cur.latest
        IN  \A j \in DOMAIN ops :
                ops[j] = <<"uninstall", "platform", old, FALSE>> =>
                    /\ <<"Error upgrading platform", old>> \in Range(sink)
                    /\ IF j = Len(ops) THEN pc = "u_rollback"
                       ELSE /\ ops[j + 1][1] = "uninstall"
                            /\ ops[j + 1][3] = new
                            /\ ops[j + 1][4] => new \notin PMof(cur.id).installed
                            /\ ~ops[j + 1][4] =>
                                  /\ Returned
                                  /\ call.err = "FailedInstall"
                                  /\ j + 1 = Len(ops)
                                  /\ sink[Len(sink)] =
                                        <<"Error rolling-back changes", new>>

C8_Witness ==
    /\ InTransaction /\ Returned /\ call.err = "FailedInstall"
    /\ Len(TxnOps) >= 2
    /\ TxnOps[Len(TxnOps)] = <<"uninstall", "platform", cur.latest, FALSE>>
    /\ TxnOps[Len(TxnOps) - 1] =
          <<"uninstall", "platform", cur.installedRelease, FALSE>>

(* C9: a step of Upgrade removes an installed tool only if the tool is a    *)
(* dependency of the release being replaced and no platform release         *)
(* installed at that moment lists it.                                       *)
C9_OnlyUnusedToolsRemoved ==
    [][\A id \in DOMAIN instances :
          \A t \in IndexToolReleases :
              (\/ /\ t \in PMof(id).installedTools
                  /\ t \notin instances'[id].packageManager.installedTools
               \/ /\ t \in disk[DataOf(id)].tools
                  /\ t \notin disk'[DataOf(id)].tools) =>
                    /\ t \in Range(Dependencies(cur.installedRelease))
                    /\ \A r \in PMof(id).installed :
                          t \notin Range(Dependencies(r))]_vars

C9_Witness ==
    /\ InTransaction /\ pc = "u_post"
    /\ cur.latest = <<"arch2", 2>>
    /\ <<"arch1", 1>> \in PMof(cur.id).installed
    /\ <<"toolX", 1>> \in PMof(cur.id).installedTools
    /\ <<"toolY", 1>> \notin PMof(cur.id).installedTools

(* C10: a tool of the previous release that failed to uninstall does not    *)
(* stop the cleanup: when Upgrade has returned, every other tool of that    *)
(* release that no installed platform needs was uninstalled, and the        *)
(* failure is not Upgrade's result.                                         *)
C10_CleanupContinuesAfterFailure ==
    (Returned /\ InTransaction) =>
        \A j \in DOMAIN TxnOps :
            (TxnOps[j][1] = "uninstall" /\ TxnOps[j][2] = "tool" /\ ~TxnOps[j][4]) =>
                /\ \A t \in Range(cur.installedTools) \ {TxnOps[j][3]} :
                      ToolUnused(PMof(cur.id), t) =>
                          t \notin PMof(cur.id).installedTools
                /\ call.err = ""

-----------------------------------------------------------------------------
(* Init: the fixture.  An index URL is <<scheme, name>>; a URL without a    *)
(* scheme is one utils.URLParse rejects.  Every URL names the index file    *)
(* the package manager reads from the data directory.                       *)

DefaultIndexURL == <<"https", "package_index">>

AdditionalURLs(cfg) ==
    IF cfg = "cfgA"
    THEN << <<"", "%zz">>, <<"file", "local_index">>, <<"https", "third_index">> >>
    ELSE << >>

IndexNames == {"package_index", "local_index", "third_index"}

URLParse(u) == [err |-> u[1] = "", Scheme |-> u[1], Path |-> u[2]]

(* The tools of the package "builtin".                                      *)
BuiltinTools == {"ctags", "mdns", "ghost"}

(* What each index file declares.  The local index names the builtin tool   *)
(* ghost without any release.                                               *)
IndexContent(name) ==
    CASE name = "package_index" ->
            [releases |-> IndexReleases,
             tools |-> {"toolX", "toolY", "ctags"},
             toolReleases |-> IndexToolReleases \cup {<<"ctags", 1>>, <<"ctags", 2>>}]
      [] name = "local_index" ->
            [releases |-> {}, tools |-> {"ghost"}, toolReleases |-> {}]
      [] name = "third_index" ->
            [releases |-> {}, tools |-> {"mdns"}, toolReleases |-> {<<"mdns", 1>>}]
      [] OTHER -> [releases |-> {}, tools |-> {}, toolReleases |-> {}]

(* PackageManager.Clear: the graph is emptied.                              *)
Clear(pm) == EmptyPM

(* The graph Init starts to load into: the instance's, cleared.             *)
InitialGraphKept(pm) == pm

InitialGraph(pm) == Clear(pm)

(* LoadPackageIndex / LoadPackageIndexFromFile: the file's packages are     *)
(* merged into the graph; an unreadable file is an error.                   *)
LoadPackageIndex(pm, d, name) ==
    IF name \notin d.indexes
    THEN [err |-> TRUE, pm |-> pm]
    ELSE [err |-> FALSE,
          pm |-> [pm EXCEPT
                    !.releases = @ \cup IndexContent(name).releases,
                    !.tools = @ \cup IndexContent(name).tools,
                    !.toolReleases = @ \cup IndexContent(name).toolReleases]]

(* LoadHardware: every platform and tool found on disk is merged into the   *)
(* graph and marked installed.                                              *)
LoadHardware(pm, d) ==
    [pm EXCEPT !.releases = @ \cup d.platforms,
               !.installed = @ \cup d.platforms,
               !.tools = @ \cup {t[1] : t \in d.tools},
               !.toolReleases = @ \cup d.tools,
               !.installedTools = @ \cup d.tools]

LatestRelease(pm, name) ==
    LET S == {t \in pm.toolReleases : t[1] = name}
    IN  IF S = {} THEN {} ELSE {MaxVersion(S)}

(* What Init does with an item that failed, after reporting it.             *)
OnItemErrorAbort == "return"

OnItemError == "continue"

(* installToolIfMissing as a function of the outcomes of the download and   *)
(* of the install: whether the tool was installed now, the error, the       *)
(* events sent and the operations attempted.                                *)
installToolIfMissingInstallAnyway(pm, tool, downloadOk, installOk) ==
    IF tool \in pm.installedTools
    THEN [installed |-> FALSE, err |-> "", events |-> << >>, ops |-> << >>,
          steps |-> << >>]
    ELSE [installed |-> installOk,
          err |-> IF installOk THEN "" ELSE "installing tool",
          events |-> << <<"Downloading missing tool", tool>>,
                        <<"Completed", tool>> >>,
          ops |-> << <<"download", "tool", tool, downloadOk>>,
                     <<"install", "tool", tool, installOk>> >>,
          steps |-> << <<"taskCB", "Downloading missing tool">>,
                       <<"DownloadToolRelease", downloadOk>>,
                       <<"taskCB", "Completed">>,
                       <<"InstallToolRelease", installOk>> >>]

installToolIfMissing(pm, tool, downloadOk, installOk) ==
    IF tool \in pm.installedTools
    THEN [installed |-> FALSE, err |-> "", events |-> << >>, ops |-> << >>,
          steps |-> << >>]
    ELSE IF ~downloadOk
    THEN [installed |-> FALSE, err |-> "downloading tool",
          events |-> << <<"Downloading missing tool", tool>> >>,
          ops |-> << <<"download", "tool", tool, FALSE>> >>,
          steps |-> << <<"taskCB", "Downloading missing tool">>,
                       <<"DownloadToolRelease", FALSE>> >>]
    ELSE IF ~installOk
    THEN [installed |-> FALSE, err |-> "installing tool",
          events |-> << <<"Downloading missing tool", tool>>,
                        <<"Completed", tool>> >>,
          ops |-> << <<"download", "tool", tool, TRUE>>,
                     <<"install", "tool", tool, FALSE>> >>,
          steps |-> << <<"taskCB", "Downloading missing tool">>,
                       <<"DownloadToolRelease", TRUE>>,
                       <<"taskCB", "Completed">>,
                       <<"InstallToolRelease", FALSE>> >>]
    ELSE [installed |-> TRUE, err |-> "",
          events |-> << <<"Downloading missing tool", tool>>,
                        <<"Completed", tool>> >>,
          ops |-> << <<"download", "tool", tool, TRUE>>,
                     <<"install", "tool", tool, TRUE>> >>,
          steps |-> << <<"taskCB", "Downloading missing tool">>,
                       <<"DownloadToolRelease", TRUE>>,
                       <<"taskCB", "Completed">>,
                       <<"InstallToolRelease", TRUE>> >>]

-----------------------------------------------------------------------------
(* Init, step by step.                                                      *)

MaxInits == 2

InitResolve(id) == IF GetInstance(id) = {} THEN "InvalidInstance" ELSE ""

(* urls := DefaultIndexURL followed by board_manager.additional_urls.       *)
IndexURLs(cfg) == <<DefaultIndexURL>> \o AdditionalURLs(cfg)

(* Entry: the instance is looked up and its package manager cleared.        *)
InitEnter(id) ==
    /\ pc = "idle"
    /\ Len(snap) < MaxInits
    /\ IF InitResolve(id) # ""
       THEN /\ Reject("Init", id, << >>, InitResolve(id))
            /\ UNCHANGED <<instances, instancesCount, dirs, disk, created,
                           destroyed, snap>>
       ELSE /\ instances' = [instances EXCEPT
                  ![id].packageManager = InitialGraph(@)]
            /\ pc' = "i_urls"
            /\ cur' = [op |-> "Init", id |-> id, args |-> << >>, i |-> 1,
                       builtinTodo |-> {}, builtinToolReleases |-> << >>,
                       toolsHaveBeenInstalled |-> FALSE, loads |-> 0,
                       last |-> << >>]
            /\ sink' = << >>
            /\ oplog' = << >>
            /\ call' = NoCall
            /\ UNCHANGED <<instancesCount, dirs, disk, created, destroyed, snap>>

(* An item failed and was reported: Init goes on with the next one.         *)
InitAborts(failed) == failed /\ OnItemError # "continue"

(* One iteration of the loop over the index URLs.  A file URL is read with  *)
(* LoadPackageIndexFromFile and any other with LoadPackageIndex; both read  *)
(* the index file and merge it.                                             *)
InitLoadIndex ==
    /\ pc = "i_urls"
    /\ LET urls == IndexURLs(DataOf(cur.id))
           u == urls[cur.i]
           URL == URLParse(u)
           loaded == LoadPackageIndex(PMof(cur.id), disk[DataOf(cur.id)], URL.Path)
           failed == URL.err \/ loaded.err
       IN  /\ instances' = [instances EXCEPT
                 ![cur.id].packageManager = IF URL.err THEN @ ELSE loaded.pm]
           /\ oplog' = IF URL.err THEN oplog
                       ELSE Append(oplog, <<"load", "index", u, ~loaded.err>>)
           /\ sink' = IF URL.err THEN Append(sink, <<"Invalid additional URL", u>>)
                      ELSE IF loaded.err
                           THEN Append(sink, <<"Loading index file", u>>)
                           ELSE sink
           /\ IF InitAborts(failed)
              THEN Return("FailedPrecondition") /\ UNCHANGED cur
              ELSE /\ pc' = IF cur.i < Len(urls) THEN "i_urls" ELSE "i_hw"
                   /\ cur' = [cur EXCEPT !.i = @ + 1]
                   /\ UNCHANGED call
    /\ UNCHANGED <<instancesCount, dirs, disk, created, destroyed, snap>>

(* LoadHardware, then the start of the loop over the builtin tools.         *)
InitLoadHardware ==
    /\ pc = "i_hw"
    /\ LET pm == LoadHardware(PMof(cur.id), disk[DataOf(cur.id)])
           todo == pm.tools \cap BuiltinTools
       IN  /\ instances' = [instances EXCEPT ![cur.id].packageManager = pm]
           /\ cur' = [cur EXCEPT !.builtinTodo = todo, !.loads = @ + 1]
           /\ pc' = IF todo = {} THEN "i_reload" ELSE "i_builtin"
    /\ oplog' = Append(oplog, <<"loadhardware", "graph", 1, TRUE>>)
    /\ UNCHANGED <<instancesCount, dirs, disk, sink, call, created, destroyed,
                   snap>>

(* One iteration of the loop over the tools of the package "builtin", a map *)
(* visited in any order: the latest release of the tool is collected.       *)
InitBuiltinTool(name) ==
    /\ pc = "i_builtin"
    /\ name \in cur.builtinTodo
    /\ LET latestRelease == LatestRelease(PMof(cur.id), name)
           todo == cur.builtinTodo \ {name}
           releases == IF latestRelease = {} THEN cur.builtinToolReleases
                       ELSE Append(cur.builtinToolReleases,
                                   CHOOSE r \in latestRelease : TRUE)
       IN  /\ sink' = IF latestRelease = {}
                      THEN Append(sink, <<"can't find latest release of tool", name>>)
                      ELSE sink
           /\ IF InitAborts(latestRelease = {})
              THEN Return("Internal") /\ UNCHANGED cur
              ELSE /\ cur' = [cur EXCEPT !.builtinTodo = todo,
                                         !.builtinToolReleases = releases,
                                         !.i = 1]
                   /\ pc' = IF todo # {} THEN "i_builtin"
                            ELSE IF releases = << >> THEN "i_reload"
                                 ELSE "i_install"
                   /\ UNCHANGED call
    /\ UNCHANGED <<instances, instancesCount, dirs, disk, oplog, created,
                   destroyed, snap>>

(* One iteration of the loop that installs the missing builtin tools.       *)
InitInstallTool(downloadOk, installOk) ==
    /\ pc = "i_install"
    /\ LET toolRelease == cur.builtinToolReleases[cur.i]
           r == installToolIfMissing(PMof(cur.id), toolRelease, downloadOk,
                                     installOk)
           fetched == IF <<"download", "tool", toolRelease, TRUE>> \in Range(r.ops)
                      THEN {toolRelease} ELSE {}
           placed == IF r.installed THEN {toolRelease} ELSE {}
       IN  /\ oplog' = oplog \o r.ops
           /\ disk' = [disk EXCEPT ![DataOf(cur.id)].cache = @ \cup fetched,
                                   ![DataOf(cur.id)].tools = @ \cup placed]
           /\ sink' = sink \o r.events \o
                      (IF r.err # "" THEN << <<r.err, toolRelease>> >> ELSE << >>)
           /\ IF InitAborts(r.err # "")
              THEN Return("Internal") /\ UNCHANGED cur
              ELSE /\ cur' = [cur EXCEPT
                        !.toolsHaveBeenInstalled = @ \/ r.installed,
                        !.i = @ + 1,
                        !.last = <<[tool |-> toolRelease,
                                    present |-> toolRelease \in
                                        PMof(cur.id).installedTools,
                                    result |-> r]>>]
                   /\ pc' = IF cur.i < Len(cur.builtinToolReleases)
                            THEN "i_install" ELSE "i_reload"
                   /\ UNCHANGED call
    /\ UNCHANGED <<instances, instancesCount, dirs, created, destroyed, snap>>

(* Whether hardware is loaded again after the builtin tools.                *)
ReloadNeededNever(toolsHaveBeenInstalled) == FALSE
ReloadNeeded(toolsHaveBeenInstalled) == toolsHaveBeenInstalled

InitReload ==
    /\ pc = "i_reload"
    /\ IF ReloadNeeded(cur.toolsHaveBeenInstalled)
       THEN /\ instances' = [instances EXCEPT ![cur.id].packageManager =
                                LoadHardware(@, disk[DataOf(cur.id)])]
            /\ oplog' = Append(oplog, <<"loadhardware", "graph", 2, TRUE>>)
            /\ cur' = [cur EXCEPT !.loads = @ + 1]
       ELSE UNCHANGED <<instances, oplog, cur>>
    /\ pc' = "i_libs"
    /\ UNCHANGED <<instancesCount, dirs, disk, sink, call, created, destroyed,
                   snap>>

(* LoadDiscoveries, LoadIndex and RescanLibraries: each failure is an       *)
(* event, and Init returns nil.                                             *)
InitLoadLibraries(discoveriesOk, indexOk, rescanOk) ==
    /\ pc = "i_libs"
    /\ LET d == disk[DataOf(cur.id)]
           lm == LMof(cur.id)
       IN  /\ instances' = [instances EXCEPT ![cur.id].librariesManager =
                 [index |-> IF indexOk THEN IndexLibraries ELSE lm.index,
                  libraries |-> IF rescanOk
                                THEN {<<l[1], l[2], "user">> : l \in d.libs}
                                ELSE lm.libraries]]
           /\ sink' = sink \o
                 (IF discoveriesOk THEN << >>
                  ELSE << <<"Loading discoveries", cur.id>> >>) \o
                 (IF indexOk THEN << >>
                  ELSE << <<"Loading index file", <<"library", "library_index">>>> >>) \o
                 (IF rescanOk THEN << >>
                  ELSE << <<"Loading libraries", cur.id>> >>)
           /\ oplog' = oplog \o << <<"load", "discoveries", cur.id, discoveriesOk>>,
                                   <<"load", "library_index", cur.id, indexOk>>,
                                   <<"rescan", "libraries", cur.id, rescanOk>> >>
           /\ snap' = Append(snap, [pm |-> PMof(cur.id), disk |-> d])
    /\ Return("")
    /\ UNCHANGED <<instancesCount, dirs, disk, cur, created, destroyed>>

-----------------------------------------------------------------------------
(* SpecInit: Init calls on a created instance, and between two calls the    *)
(* data directory may change under it.                                      *)

(* A core is uninstalled on disk.                                           *)
DiskUninstallPlatform(cfg, r) ==
    /\ pc = "idle"
    /\ Len(snap) \in 1..(MaxInits - 1)
    /\ r \in disk[cfg].platforms
    /\ disk' = [disk EXCEPT ![cfg].platforms = @ \ {r}]
    /\ UNCHANGED <<instances, instancesCount, dirs, pc, cur, sink, oplog, call,
                   created, destroyed, snap>>

(* An index file is deleted.                                                *)
DiskRemoveIndex(cfg, name) ==
    /\ pc = "idle"
    /\ Len(snap) \in 1..(MaxInits - 1)
    /\ name \in disk[cfg].indexes
    /\ disk' = [disk EXCEPT ![cfg].indexes = @ \ {name}]
    /\ UNCHANGED <<instances, instancesCount, dirs, pc, cur, sink, oplog, call,
                   created, destroyed, snap>>

InitPlatformChoices ==
    { {}, {<<"arch1", 1>>}, {<<"arch1", 1>>, <<"arch2", 2>>} }

InitInit ==
    \E P \in InitPlatformChoices, X \in SUBSET IndexNames,
       extra \in {{}, {<<"ctags", 2>>}, {<<"mdns", 1>>}} :
        /\ instances = (1 :> NewInstance(1, "cfgA"))
        /\ instancesCount = 2
        /\ dirs = {DownloadsDir("cfgA"), PackagesDir("cfgA")}
        /\ disk = [c \in Configs |->
                     IF c = "cfgA"
                     THEN [EmptyDisk EXCEPT !.platforms = P,
                                            !.tools = ToolsNeeded(P) \cup extra,
                                            !.indexes = X]
                     ELSE EmptyDisk]
        /\ pc = "idle"
        /\ cur = Idle
        /\ sink = << >>
        /\ oplog = << >>
        /\ call = NoCall
        /\ created = <<1>>
        /\ destroyed = {}
        /\ snap = << >>

NextInit ==
    \/ \E id \in {1, 2} : InitEnter(id)
    \/ InitLoadIndex
    \/ InitLoadHardware
    \/ \E name \in BuiltinTools : InitBuiltinTool(name)
    \/ \E downloadOk, installOk \in BOOLEAN : InitInstallTool(downloadOk, installOk)
    \/ InitReload
    \/ \E discoveriesOk, indexOk, rescanOk \in BOOLEAN :
          InitLoadLibraries(discoveriesOk, indexOk, rescanOk)
    \/ \E r \in IndexReleases : DiskUninstallPlatform("cfgA", r)
    \/ DiskRemoveIndex("cfgA", "package_index")

SpecInit == InitInit /\ [][NextInit]_vars


-----------------------------------------------------------------------------
(* Properties of Init (SpecInit).                                           *)

(* An event with this message and subject was sent; an operation on this    *)
(* target was attempted with this outcome.                                  *)
Sent(msg, subject) ==
    \E j \in DOMAIN sink : sink[j][1] = msg /\ sink[j][2] = subject

Did(op, kind, target, ok) ==
    \E j \in DOMAIN oplog :
        /\ oplog[j][1] = op /\ oplog[j][2] = kind
        /\ oplog[j][3] = target /\ oplog[j][4] = ok

InitReturned == pc = "idle" /\ call.op = "Init" /\ ~call.dead

(* C4: Init starts from a cleared graph; two Inits that end on the same     *)
(* disk contents end with the same graph; and after any Init the graph      *)
(* reports as installed only platforms and tools that are on disk, so a     *)
(* platform uninstalled between two Inits is gone after the second.         *)
C4_InitIdempotent ==
    /\ (cur.op = "Init" /\ pc = "i_urls" /\ cur.i = 1) =>
          PMof(cur.id) = EmptyPM
    /\ \A k \in DOMAIN snap :
          /\ snap[k].pm.installed \subseteq snap[k].disk.platforms
          /\ snap[k].pm.installedTools \subseteq snap[k].disk.tools
          /\ (k > 1 /\ snap[k - 1].disk = snap[k].disk) =>
                snap[k].pm = snap[k - 1].pm

(* A first Init saw arch1@1 installed; it was uninstalled on disk; the      *)
(* second Init reports arch2@2 only.                                        *)
C4_Witness ==
    /\ InitReturned
    /\ Len(snap) = 2
    /\ <<"arch1", 1>> \in snap[1].pm.installed
    /\ <<"arch1", 1>> \notin snap[2].pm.installed
    /\ <<"arch2", 2>> \in snap[2].pm.installed

(* C5: when Init has returned for an existing instance its result is nil,   *)
(* every index URL was handled (a malformed one and an unreadable index are *)
(* each on the sink as an error, a readable index is in the graph), every   *)
(* builtin tool was handled (one without a latest release is on the sink    *)
(* as an error; the latest release of any other is on disk, or its failed   *)
(* download or install is on the sink and, for a failed download, no        *)
(* install was tried), and the libraries were loaded.  The disk is the one   *)
(* Init returned on.                                                        *)
C5_InitBestEffort ==
    InitReturned =>
        LET cfg == DataOf(cur.id)
            urls == IndexURLs(cfg)
            pm == PMof(cur.id)
            d == snap[Len(snap)].disk
        IN  /\ call.err = ""
            /\ \A i \in DOMAIN urls :
                  LET u == urls[i]
                  IN  IF URLParse(u).err
                      THEN Sent("Invalid additional URL", u)
                      ELSE IF u[2] \notin d.indexes
                      THEN Sent("Loading index file", u)
                      ELSE /\ IndexContent(u[2]).releases \subseteq pm.releases
                           /\ IndexContent(u[2]).tools \subseteq pm.tools
            /\ \A name \in pm.tools \cap BuiltinTools :
                  IF LatestRelease(pm, name) = {}
                  THEN Sent("can't find latest release of tool", name)
                  ELSE \A t \in LatestRelease(pm, name) :
                          \/ t \in d.tools
                          \/ /\ Did("download", "tool", t, FALSE)
                             /\ Sent("downloading tool", t)
                             /\ \A ok \in BOOLEAN :
                                   ~Did("install", "tool", t, ok)
                          \/ /\ Did("install", "tool", t, FALSE)
                             /\ Sent("installing tool", t)
            /\ \E ok \in BOOLEAN : Did("rescan", "libraries", cur.id, ok)

(* A malformed URL, a tool without release and a failed download, and the   *)
(* tool after it was installed all the same.                                *)
C5_Witness ==
    /\ InitReturned
    /\ call.err = ""
    /\ Sent("Invalid additional URL", <<"", "%zz">>)
    /\ Sent("can't find latest release of tool", "ghost")
    /\ \E j, k \in DOMAIN oplog :
          /\ j < k
          /\ oplog[j][1] = "download" /\ oplog[j][3] = <<"ctags", 2>>
          /\ ~oplog[j][4]
          /\ oplog[k][1] = "install" /\ oplog[k][3] = <<"mdns", 1>>
          /\ oplog[k][4]


-----------------------------------------------------------------------------
(* The instance check of the handlers that are bound to an id.              *)

OutdatedResolve(id) ==
    IF GetLibraryManager(id) = {} THEN "InvalidInstance" ELSE ""

UpdateIndexResolve(id) ==
    IF id \notin DOMAIN instances THEN "InvalidInstance" ELSE ""

UpdateLibrariesIndexResolve(id, downloaderConfigOk) ==
    IF GetLibraryManager(id) = {} THEN "InvalidInstance"
    ELSE IF ~downloaderConfigOk THEN "InvalidDownloaderConfig"
         ELSE ""

(* Outdated, UpdateIndex or UpdateLibrariesIndex returning at its check.    *)
HandlerResolve(op, id, downloaderConfigOk) ==
    CASE op = "Outdated" -> OutdatedResolve(id)
      [] op = "UpdateIndex" -> UpdateIndexResolve(id)
      [] op = "UpdateLibrariesIndex" ->
            UpdateLibrariesIndexResolve(id, downloaderConfigOk)

HandlerRejects(op, id, downloaderConfigOk) ==
    /\ pc = "idle"
    /\ HandlerResolve(op, id, downloaderConfigOk) # ""
    /\ Reject(op, id, <<downloaderConfigOk>>,
              HandlerResolve(op, id, downloaderConfigOk))
    /\ UNCHANGED <<instances, instancesCount, dirs, disk, created, destroyed,
                   snap>>

(* A caller looks up the package manager or the library manager of an id.   *)
Lookup(which, id) ==
    /\ pc = "idle"
    /\ call' = [op |-> which, id |-> {id}, dead |-> Dead(id), args |-> << >>,
                err |-> "",
                out |-> IF which = "GetPackageManager"
                        THEN GetPackageManager(id)
                        ELSE GetLibraryManager(id)]
    /\ UNCHANGED <<instances, instancesCount, dirs, disk, pc, cur, sink, oplog,
                   created, destroyed, snap>>

-----------------------------------------------------------------------------
(* Spec: the registry.  The process starts with no instance and the counter *)
(* at 1; the second initial state is the registry of a long-lived daemon    *)
(* that has handed out every id below MaxInt32 and destroyed the instances. *)

Init ==
    /\ instances = [i \in {} |-> NewInstance(i, "")]
    /\ instancesCount \in {1, MaxInt32}
    /\ dirs = {}
    /\ disk = [c \in Configs |-> EmptyDisk]
    /\ pc = "idle"
    /\ cur = Idle
    /\ sink = << >>
    /\ oplog = << >>
    /\ call = NoCall
    /\ created = << >>
    /\ destroyed = {}
    /\ snap = << >>

Next ==
    \/ \E configFile \in Configs \cup {""}, mkDownloads, mkData \in BOOLEAN :
          Create(configFile, mkDownloads, mkData)
    \/ \E id \in IdInputs : Destroy(id)
    \/ \E id \in IdInputs : InitResolve(id) # "" /\ InitEnter(id)
    \/ \E id \in IdInputs, downloaderConfigOk \in BOOLEAN :
          /\ UpgradeResolve(id, downloaderConfigOk) # ""
          /\ UpgradeEnter(id, FALSE, downloaderConfigOk)
    \/ \E op \in {"Outdated", "UpdateIndex", "UpdateLibrariesIndex"},
          id \in IdInputs, downloaderConfigOk \in BOOLEAN :
          HandlerRejects(op, id, downloaderConfigOk)
    \/ \E which \in {"GetPackageManager", "GetLibraryManager"}, id \in IdInputs :
          Lookup(which, id)

Spec == Init /\ [][Next]_vars

-----------------------------------------------------------------------------
(* Properties of the registry (Spec).                                       *)

BoundOps == {"Init", "Destroy", "Outdated", "Upgrade", "UpdateIndex",
             "UpdateLibrariesIndex"}

(* C1: an operation bound to an id that was destroyed or never returned by  *)
(* Create fails with InvalidInstance, a lookup of such an id returns        *)
(* nothing, and the registry holds exactly the ids created and not          *)
(* destroyed.                                                               *)
C1_DeadIdIsInvalidInstance ==
    /\ (call.dead /\ call.op \in BoundOps) => call.err = "InvalidInstance"
    /\ (call.dead /\ call.op \in {"GetPackageManager", "GetLibraryManager"}) =>
          call.out = {}
    /\ DOMAIN instances = Range(created) \ destroyed

(* C2: every id returned by Create is positive and greater than every id    *)
(* returned before it.                                                      *)
C2_IdsPositiveIncreasing ==
    \A j \in DOMAIN created :
        /\ created[j] > 0
        /\ \A k \in 1..(j - 1) : created[k] < created[j]

(* C3: a Create without configuration file fails with MissingConfigFile, a  *)
(* Create whose downloads or data directory is absent and cannot be made    *)
(* fails with PermissionDenied, and a Create that failed returns no id and  *)
(* leaves the registry and the id counter as they were.                     *)
C3_CreateFailureLeavesRegistry ==
    [][(call'.op = "Create" /\ call' # call) =>
          LET configFile == call'.args[1]
              noDownloads == /\ DownloadsDir(configFile) \notin dirs
                             /\ ~call'.args[2]
              noData == /\ PackagesDir(configFile) \notin dirs
                        /\ ~call'.args[3]
          IN  /\ configFile = "" => call'.err = "MissingConfigFile"
              /\ (configFile # "" /\ (noDownloads \/ noData)) =>
                    call'.err = "PermissionDenied"
              /\ call'.err # "" =>
                    /\ call'.out = {}
                    /\ UNCHANGED <<instances, instancesCount, created>>]_vars

(* Create failed on the data directory while an instance is registered.     *)
C3_Witness ==
    /\ call.op = "Create"
    /\ call.err = "PermissionDenied"
    /\ call.args[2] /\ ~call.args[3]
    /\ DOMAIN instances # {}


-----------------------------------------------------------------------------
(* Properties of Upgrade over several platforms and libraries               *)
(* (SpecUpgrade).                                                           *)

(* The platforms and the user libraries that were outdated when Upgrade     *)
(* was called, each with the release Upgrade is to bring it to.             *)
OutdatedAtEntry ==
    {new \in cur.entry.releases :
        /\ GetInstalledPlatformRelease(cur.entry, new[1]) # {}
        /\ GetLatestRelease(cur.entry, new[1]) = {new}
        /\ GetInstalledPlatformRelease(cur.entry, new[1]) # {new}}

OutdatedLibrariesAtEntry ==
    UNION {FindLibraryUpdate(cur.entryLM, l) :
              l \in {x \in cur.entryLM.libraries : x[3] = "user"}}

(* C11: when Upgrade has returned, every library and every platform that    *)
(* was outdated at the call was attempted, whatever failed for the others,  *)
(* and every failed download or install is on the sink.                     *)
C11_UpgradeBestEffortAggregate ==
    (Returned /\ InUpgrade) =>
        /\ \A rel \in OutdatedLibrariesAtEntry :
              \E ok \in BOOLEAN : <<"download", "library", rel, ok>> \in Range(oplog)
        /\ \A new \in OutdatedAtEntry : <<"Downloading", new>> \in Range(sink)
        /\ \A j \in DOMAIN oplog :
              (oplog[j][1] \in {"download", "install"} /\ ~oplog[j][4]) =>
                  \E k \in DOMAIN sink :
                      /\ sink[k][2] = oplog[j][3]
                      /\ sink[k][1] \in {"Error downloading tool",
                                         "Error downloading platform",
                                         "Error downloading library",
                                         "Error installing tool",
                                         "Error installing platform",
                                         "Error installing library"}

(* C12: the step after the tool cleanup runs the post-install script of     *)
(* the new release exactly when the caller did not opt out; a script that   *)
(* failed adds a warning to the sink, and in either case Upgrade does not   *)
(* return there but goes on with the platform loop.                         *)
C12_PostInstallIsWarningOnly ==
    [][pc = "u_post" =>
          LET ran == /\ Len(oplog') = Len(oplog) + 1
                     /\ oplog'[Len(oplog')][1] = "postinstall"
                     /\ oplog'[Len(oplog')][3] = cur.latest
          IN  /\ ran <=> ~cur.skip
              /\ ~ran => oplog' = oplog
              /\ (ran /\ ~oplog'[Len(oplog')][4]) =>
                    sink'[Len(sink')] =
                        <<"WARNING: cannot run post install", cur.latest>>
              /\ pc' = "u_plats"
              /\ call' = call
              /\ UNCHANGED <<instances, disk>>]_vars

(* The script of one platform failed, another platform was upgraded after   *)
(* it, and Upgrade returned nil.                                            *)
C12_Witness ==
    /\ Returned
    /\ call.err = ""
    /\ ~cur.skip
    /\ \E j, k \in DOMAIN oplog :
          /\ j < k
          /\ oplog[j][1] = "postinstall" /\ ~oplog[j][4]
          /\ oplog[k][1] = "install" /\ oplog[k][2] = "platform" /\ oplog[k][4]

-----------------------------------------------------------------------------
(* Resource helpers (arduino/resources/helpers.go): the download cache and  *)
(* the installation of an archive into a destination directory.  They run   *)
(* on one data directory; an archive is named by the resource it belongs    *)
(* to, disk[c].cache is the set of archives present in the staging folder   *)
(* and disk[c].corrupt the ones whose bytes do not match the resource's     *)
(* checksum or size.                                                        *)

ResourceDir == "cfgA"

(* The archives of the fixture, by the top-level entries they unpack to:    *)
(* one root folder, no folder at all, two folders.                          *)
ArchiveEntries(r) ==
    CASE r[1] = "good" -> << [name |-> "README", isDir |-> FALSE],
                             [name |-> "pkg", isDir |-> TRUE] >>
      [] r[1] = "flat" -> << [name |-> "README", isDir |-> FALSE] >>
      [] r[1] = "twin" -> << [name |-> "pkg", isDir |-> TRUE],
                             [name |-> "extra", isDir |-> TRUE] >>
      [] OTHER -> << >>

Resources == {<<"good", 1>>, <<"flat", 1>>, <<"twin", 1>>}

StagingDir(c) == <<c, "staging">>

(* TestLocalArchiveIntegrity: ok iff the file is there and matches; err     *)
(* when the check itself cannot be carried out.                             *)
TestLocalArchiveIntegrity(d, r, checkErr) ==
    [ok |-> ~checkErr /\ r \in d.cache /\ r \notin d.corrupt,
     err |-> checkErr \/ r \notin d.cache]

(* IsCached returns archivePath.Exist().                                    *)
IsCachedResult(d, r, pathOk) ==
    IF ~pathOk THEN [cached |-> FALSE, err |-> "ArchivePath"]
    ELSE [cached |-> r \in d.cache, err |-> ""]

(* What Download decides from the stat of the archive, the integrity test   *)
(* and the outcome of removing a bad copy: the error it returns, whether    *)
(* the local copy is removed, whether a transfer is started.                *)
DownloadPlanAlwaysFetch(exists, statErr, integrity, removeOk) ==
    [err |-> "", remove |-> exists, transfer |-> TRUE]

DownloadPlanKeepGoing(exists, statErr, integrity, removeOk) ==
    IF statErr THEN [err |-> "ArchiveInfo", remove |-> FALSE, transfer |-> FALSE]
    ELSE IF ~exists THEN [err |-> "", remove |-> FALSE, transfer |-> TRUE]
    ELSE IF integrity.err \/ ~integrity.ok
         THEN [err |-> "", remove |-> removeOk, transfer |-> TRUE]
         ELSE [err |-> "", remove |-> FALSE, transfer |-> FALSE]

DownloadPlan(exists, statErr, integrity, removeOk) ==
    IF statErr THEN [err |-> "ArchiveInfo", remove |-> FALSE, transfer |-> FALSE]
    ELSE IF ~exists THEN [err |-> "", remove |-> FALSE, transfer |-> TRUE]
    ELSE IF integrity.err \/ ~integrity.ok
         THEN IF removeOk
              THEN [err |-> "", remove |-> TRUE, transfer |-> TRUE]
              ELSE [err |-> "RemoveCorrupted", remove |-> FALSE,
                    transfer |-> FALSE]
         ELSE [err |-> "", remove |-> FALSE, transfer |-> FALSE]

(* ArchivePath creates the staging folder before it answers.                *)
ArchivePath(pathOk) ==
    dirs' = IF pathOk THEN dirs \cup {StagingDir(ResourceDir)} ELSE dirs

IsCached(r, pathOk) ==
    /\ pc = "idle"
    /\ ArchivePath(pathOk)
    /\ call' = [op |-> "IsCached", id |-> {}, dead |-> FALSE, args |-> <<r>>,
                err |-> IsCachedResult(disk[ResourceDir], r, pathOk).err,
                out |-> {IsCachedResult(disk[ResourceDir], r, pathOk).cached}]
    /\ cur' = [op |-> "IsCached", id |-> 0, args |-> <<r>>,
               before |-> disk[ResourceDir]]
    /\ sink' = << >>
    /\ oplog' = << >>
    /\ UNCHANGED <<instances, instancesCount, disk, pc, created, destroyed, snap>>

(* Download up to its return; a started transfer is left to run (Transfer). *)
Download(r, pathOk, statErr, checkErr, removeOk, startOk) ==
    /\ pc = "idle"
    /\ ArchivePath(pathOk)
    /\ LET d == disk[ResourceDir]
           plan == IF ~pathOk
                   THEN [err |-> "ArchivePath", remove |-> FALSE,
                         transfer |-> FALSE]
                   ELSE DownloadPlan(r \in d.cache, statErr,
                                     TestLocalArchiveIntegrity(d, r, checkErr),
                                     removeOk)
           after == IF plan.remove
                    THEN [d EXCEPT !.cache = @ \ {r}, !.corrupt = @ \ {r}]
                    ELSE d
           started == plan.transfer /\ startOk
           err == IF plan.transfer /\ ~startOk THEN "DownloadWithConfig"
                  ELSE plan.err
       IN /\ disk' = [disk EXCEPT ![ResourceDir] = after]
          /\ oplog' = (IF pathOk /\ ~statErr /\ r \in d.cache
                       THEN << <<"check", "archive", r, ~checkErr>> >>
                       ELSE << >>)
                      \o (IF pathOk /\ ~statErr /\ r \in d.cache
                             /\ ~TestLocalArchiveIntegrity(d, r, checkErr).ok
                          THEN << <<"remove", "archive", r, removeOk>> >>
                          ELSE << >>)
                      \o (IF plan.transfer
                          THEN << <<"transfer", "archive", r, startOk>> >>
                          ELSE << >>)
          /\ call' = [op |-> "Download", id |-> {}, dead |-> FALSE,
                      args |-> <<r>>, err |-> err,
                      out |-> IF started THEN {"downloader"} ELSE {}]
          /\ cur' = [op |-> "Download", id |-> 0, args |-> <<r>>, before |-> d,
                     after |-> after,
                     in |-> [pathOk |-> pathOk, statErr |-> statErr,
                             checkErr |-> checkErr, removeOk |-> removeOk]]
          /\ pc' = IF started THEN "r_transfer" ELSE "idle"
    /\ sink' = << >>
    /\ UNCHANGED <<instances, instancesCount, created, destroyed, snap>>

(* The transfer the caller runs on the returned downloader: the whole file  *)
(* arrives, or part of it, or nothing.                                      *)
Transfer(outcome) ==
    /\ pc = "r_transfer"
    /\ LET r == cur.args[1]
       IN disk' = [disk EXCEPT ![ResourceDir] =
                     IF outcome = "complete"
                     THEN [@ EXCEPT !.cache = @ \cup {r}, !.corrupt = @ \ {r}]
                     ELSE IF outcome = "partial"
                     THEN [@ EXCEPT !.cache = @ \cup {r}, !.corrupt = @ \cup {r}]
                     ELSE @]
    /\ sink' = Append(sink, <<"download", cur.args[1], outcome>>)
    /\ pc' = "idle"
    /\ UNCHANGED <<instances, instancesCount, dirs, cur, oplog, call, created,
                   destroyed, snap>>

(* Environment: the bytes of a cached archive are altered.                  *)
DiskCorruptArchive(r) ==
    /\ pc = "idle"
    /\ r \in disk[ResourceDir].cache
    /\ r \notin disk[ResourceDir].corrupt
    /\ disk' = [disk EXCEPT ![ResourceDir].corrupt = @ \cup {r}]
    /\ UNCHANGED <<instances, instancesCount, dirs, pc, cur, sink, oplog, call,
                   created, destroyed, snap>>

-----------------------------------------------------------------------------
(* Install (helpers.go): check the archive, extract it into a fresh         *)
(* temporary folder, find its single root folder and move that folder in    *)
(* place of the destination.  disk[c].dest is what the destination holds:   *)
(* "absent", the content label of one complete installation, or "partial"   *)
(* when only some of the files of an installation are there.                *)

DestParent(c) == <<c, "destparent">>
TempPath(c) == <<c, "tmp">>

MaxTemps == 4
TempNames == 1..MaxTemps
TempEntry(n) == <<"ostmp", n>>
TempEntries == {TempEntry(n) : n \in TempNames}
HasFreshTemp == \E n \in TempNames : TempEntry(n) \notin dirs
FreshTemp == TempEntry(CHOOSE n \in TempNames :
                          /\ TempEntry(n) \notin dirs
                          /\ \A m \in TempNames :
                                 TempEntry(m) \notin dirs => n <= m)

(* findPackageRoot: the only directory among the top-level entries; an      *)
(* error when a second one shows up or when there is none.                  *)
RECURSIVE findPackageRootFrom(_, _, _)
findPackageRootFrom(files, i, root) ==
    IF i > Len(files)
    THEN IF root = "" THEN [root |-> "", err |-> "NoRootDir"]
         ELSE [root |-> root, err |-> ""]
    ELSE IF ~files[i].isDir THEN findPackageRootFrom(files, i + 1, root)
    ELSE IF root = "" THEN findPackageRootFrom(files, i + 1, files[i].name)
    ELSE [root |-> "", err |-> "NoUniqueRootDir"]

findPackageRootFirstDir(files) ==
    IF \E i \in DOMAIN files : files[i].isDir
    THEN [root |-> files[CHOOSE i \in DOMAIN files : files[i].isDir].name,
          err |-> ""]
    ELSE [root |-> "tmp", err |-> ""]

findPackageRoot(files) == findPackageRootFrom(files, 1, "")

(* The deferred calls of Install, run at every return once registered: the  *)
(* temporary folder is removed, and the destination's parent too when it    *)
(* was created and holds nothing.                                           *)
InstallDeferred(ds, dest, parentDeferred) ==
    (ds \ {cur.tempDir})
      \ (IF parentDeferred /\ dest = "absent"
         THEN {DestParent(ResourceDir)} ELSE {})

InstallReturn(err, dest, parentDeferred) ==
    /\ Return(err)
    /\ dirs' = InstallDeferred(dirs, dest, parentDeferred)

(* The first statements of Install: the error they return, "" when they    *)
(* all pass.                                                                *)
InstallEntryErrorNoCheck(integrity, tempPathOk, mkTempOk) ==
    IF ~tempPathOk THEN "TempPath"
    ELSE IF ~mkTempOk THEN "MkTempDir"
    ELSE ""

InstallEntryError(integrity, tempPathOk, mkTempOk) ==
    IF integrity.err THEN "TestingIntegrity"
    ELSE IF ~integrity.ok THEN "CheckingIntegrity"
    ELSE IF ~tempPathOk THEN "TempPath"
    ELSE IF ~mkTempOk THEN "MkTempDir"
    ELSE ""

InstallEnter(r, checkErr, tempPathOk, mkTempOk) ==
    /\ pc = "idle"
    /\ HasFreshTemp
    /\ sink' = << >>
    /\ LET d == disk[ResourceDir]
           integrity == TestLocalArchiveIntegrity(d, r, checkErr)
           err == InstallEntryError(integrity, tempPathOk, mkTempOk)
           entered == [op |-> "Install", id |-> 0, args |-> <<r>>,
                       before |-> d, beforeDirs |-> dirs,
                       tempDir |-> IF err = "" THEN FreshTemp ELSE << >>,
                       seen |-> {d.dest}]
       IN /\ cur' = entered
          /\ oplog' = << <<"check", "archive", r, err \notin
                               {"TestingIntegrity", "CheckingIntegrity"}>> >>
          /\ dirs' = dirs
                       \cup (IF err \in {"", "MkTempDir"}
                             THEN {TempPath(ResourceDir)} ELSE {})
                       \cup (IF err = "" THEN {FreshTemp} ELSE {})
          /\ IF err = ""
             THEN pc' = "n_extract" /\ UNCHANGED call
             ELSE /\ pc' = "idle"
                  /\ call' = [op |-> "Install", id |-> {0}, dead |-> FALSE,
                              args |-> <<r>>, err |-> err, out |-> {}]
    /\ UNCHANGED <<instances, instancesCount, disk, created, destroyed, snap>>

InstallExtract(pathOk, openOk, extractOk) ==
    /\ pc = "n_extract"
    /\ LET r == cur.args[1]
           found == findPackageRoot(ArchiveEntries(r))
           err == IF ~pathOk THEN "ArchivePath"
                  ELSE IF ~openOk THEN "OpenArchive"
                  ELSE IF ~extractOk THEN "Extract"
                  ELSE IF found.err # "" THEN found.err
                  ELSE ""
       IN /\ oplog' = Append(oplog, <<"extract", "archive", r, err = "">>)
          /\ IF err = ""
             THEN /\ pc' = "n_prepare"
                  /\ dirs' = dirs \cup {StagingDir(ResourceDir)}
                  /\ UNCHANGED call
             ELSE /\ Return(err)
                  /\ dirs' = InstallDeferred(
                               IF pathOk
                               THEN dirs \cup {StagingDir(ResourceDir)}
                               ELSE dirs, disk[ResourceDir].dest, FALSE)
    /\ UNCHANGED <<instances, instancesCount, disk, cur, sink, created,
                   destroyed, snap>>

InstallPrepare(parentOk) ==
    /\ pc = "n_prepare"
    /\ IF ~parentOk
       THEN InstallReturn("DestParent", disk[ResourceDir].dest, FALSE)
       ELSE /\ dirs' = dirs \cup {DestParent(ResourceDir)}
            /\ pc' = IF disk[ResourceDir].dest # "absent"
                     THEN "n_remove" ELSE "n_rename"
            /\ UNCHANGED call
    /\ UNCHANGED <<instances, instancesCount, disk, cur, sink, oplog, created,
                   destroyed, snap>>

(* destDir.RemoveAll() deletes the old installation entry by entry ...      *)
InstallRemoveOld ==
    /\ pc = "n_remove"
    /\ disk' = [disk EXCEPT ![ResourceDir].dest = "partial"]
    /\ cur' = [cur EXCEPT !.seen = @ \cup {"partial"}]
    /\ pc' = "n_removing"
    /\ UNCHANGED <<instances, instancesCount, dirs, sink, oplog, call, created,
                   destroyed, snap>>

(* ... and its error is not looked at.                                      *)
InstallRemoveOldDone(removeOk) ==
    /\ pc = "n_removing"
    /\ disk' = [disk EXCEPT ![ResourceDir].dest =
                  IF removeOk THEN "absent" ELSE "partial"]
    /\ cur' = [cur EXCEPT !.seen = @ \cup {disk'[ResourceDir].dest}]
    /\ oplog' = Append(oplog, <<"remove", "dest", cur.args[1], removeOk>>)
    /\ pc' = "n_rename"
    /\ UNCHANGED <<instances, instancesCount, dirs, sink, call, created,
                   destroyed, snap>>

(* root.Rename(destDir): it cannot replace a folder that still has files.   *)
InstallRename(renameOk) ==
    /\ pc = "n_rename"
    /\ LET moved == renameOk /\ disk[ResourceDir].dest = "absent"
           dest == IF moved THEN cur.args[1][1] ELSE disk[ResourceDir].dest
       IN /\ disk' = [disk EXCEPT ![ResourceDir].dest = dest]
          /\ cur' = [cur EXCEPT !.seen = @ \cup {dest}]
          /\ oplog' = Append(oplog, <<"rename", "dest", cur.args[1], moved>>)
          /\ InstallReturn(IF moved THEN "" ELSE "MoveExtracted", dest, TRUE)
    /\ UNCHANGED <<instances, instancesCount, sink, created, destroyed, snap>>

(* Environment: the destination's installation is the previous one.         *)
DestStates == {"absent", "prev"}

InitResource ==
    /\ instances = << >>
    /\ instancesCount = 1
    /\ \E dest \in DestStates :
            /\ disk = [c \in Configs |->
                         IF c = ResourceDir
                         THEN [EmptyDisk EXCEPT !.dest = dest]
                         ELSE EmptyDisk]
            /\ dirs = IF dest = "absent" THEN {}
                      ELSE {DestParent(ResourceDir)}
    /\ pc = "idle"
    /\ cur = Idle
    /\ sink = << >>
    /\ oplog = << >>
    /\ call = NoCall
    /\ created = << >>
    /\ destroyed = {}
    /\ snap = << >>

(* One local failure at most per call.                                      *)
DownloadFaults == {"none", "path", "stat", "check", "remove", "start"}
InstallFaults == {"none", "check", "temppath", "mktemp"}
ExtractFaults == {"none", "path", "open", "extract"}

NextResource ==
    \/ \E r \in Resources, pathOk \in BOOLEAN : IsCached(r, pathOk)
    \/ \E r \in Resources, f \in DownloadFaults :
         Download(r, f # "path", f = "stat", f = "check", f # "remove",
                  f # "start")
    \/ \E outcome \in {"complete", "partial", "nothing"} : Transfer(outcome)
    \/ \E r \in Resources : DiskCorruptArchive(r)
    \/ \E r \in Resources, f \in InstallFaults :
         InstallEnter(r, f = "check", f # "temppath", f # "mktemp")
    \/ \E f \in ExtractFaults :
         InstallExtract(f # "path", f # "open", f # "extract")
    \/ \E parentOk \in BOOLEAN : InstallPrepare(parentOk)
    \/ InstallRemoveOld
    \/ \E removeOk \in BOOLEAN : InstallRemoveOldDone(removeOk)
    \/ \E renameOk \in BOOLEAN : InstallRename(renameOk)

SpecResource == InitResource /\ [][NextResource]_vars

-----------------------------------------------------------------------------
(* Properties of the download cache.                                        *)

DownloadReturned == cur.op = "Download" /\ pc \in {"idle", "r_transfer"}
Intact(d, r) == r \in d.cache /\ r \notin d.corrupt
TransferStarted == \E j \in DOMAIN oplog : oplog[j][1] = "transfer"
(* The integrity test of the call was run and said ok.                      *)
PassedIntegrity ==
    /\ DownloadReturned
    /\ cur.in.pathOk /\ ~cur.in.statErr /\ ~cur.in.checkErr
    /\ Intact(cur.before, cur.args[1])

(* C13: a Download of an archive that is in the cache and passes its        *)
(* integrity check returns (nil, nil), starts no transfer and leaves the    *)
(* cached file as it was.                                                   *)
C13_DownloadIdempotentOnIntactCache ==
    PassedIntegrity =>
        /\ call.op = "Download" /\ call.err = "" /\ call.out = {}
        /\ pc = "idle"
        /\ ~TransferStarted
        /\ cur.after = cur.before

C13_Witness ==
    /\ PassedIntegrity
    /\ call.err = "" /\ call.out = {}
    /\ Intact(disk[ResourceDir], cur.args[1])

(* The integrity test of the call was run on a file that is there and did   *)
(* not say ok: the bytes do not match, or the test itself failed.           *)
FailedIntegrity ==
    /\ DownloadReturned
    /\ cur.in.pathOk /\ ~cur.in.statErr
    /\ cur.args[1] \in cur.before.cache
    /\ (cur.in.checkErr \/ cur.args[1] \in cur.before.corrupt)

(* C14: when the cached archive fails its integrity test, Download deletes  *)
(* the local copy and then starts a fresh transfer; when the deletion       *)
(* fails, Download returns an error and starts no transfer.                 *)
C14_CorruptCacheIsDeletedAndRefetched ==
    FailedIntegrity =>
        IF cur.in.removeOk
        THEN /\ cur.args[1] \notin cur.after.cache
             /\ Len(oplog) = 3
             /\ oplog[2] = <<"remove", "archive", cur.args[1], TRUE>>
             /\ oplog[3][1] = "transfer"
             /\ (call.out = {"downloader"}) = (call.err = "")
        ELSE /\ call.err = "RemoveCorrupted"
             /\ call.out = {}
             /\ ~TransferStarted
             /\ cur.after = cur.before

C14_Witness ==
    /\ FailedIntegrity
    /\ cur.args[1] \in cur.before.corrupt
    /\ pc = "r_transfer"
    /\ cur.args[1] \notin disk[ResourceDir].cache

(* C15: IsCached answers true only for an archive that is in the cache and  *)
(* passes its integrity check.                                              *)
C15_IsCachedOnlyWhenIntact ==
    (cur.op = "IsCached" /\ call.out = {TRUE})
        => Intact(cur.before, cur.args[1])

-----------------------------------------------------------------------------
(* Properties of Install.                                                   *)

InInstall == cur.op = "Install"
InstallReturned == InInstall /\ pc = "idle"
TopLevelDirs(r) ==
    Cardinality({i \in DOMAIN ArchiveEntries(r) : ArchiveEntries(r)[i].isDir})
LayoutErrors == {"NoRootDir", "NoUniqueRootDir"}
(* Errors of the steps that come before the look at the layout.             *)
EarlierErrors == {"TestingIntegrity", "CheckingIntegrity", "TempPath",
                  "MkTempDir", "ArchivePath", "OpenArchive", "Extract"}

(* C16: an Install of an archive that unpacks to no top-level directory or  *)
(* to more than one fails, with the layout error once the archive has been  *)
(* unpacked, and the destination holds what it held before the call.        *)
C16_BadLayoutLeavesDestination ==
    (InstallReturned /\ TopLevelDirs(cur.args[1]) # 1) =>
        /\ call.op = "Install"
        /\ call.err \in LayoutErrors \cup EarlierErrors
        /\ (oplog[Len(oplog)] = <<"extract", "archive", cur.args[1], FALSE>>
              /\ call.err \notin EarlierErrors
            => call.err = IF TopLevelDirs(cur.args[1]) = 0
                          THEN "NoRootDir" ELSE "NoUniqueRootDir")
        /\ cur.seen = {cur.before.dest}
        /\ disk[ResourceDir].dest = cur.before.dest

C16_Witness ==
    /\ InstallReturned
    /\ cur.args[1] = <<"twin", 1>>
    /\ call.err = "NoUniqueRootDir"
    /\ cur.before.dest = "prev"
    /\ disk[ResourceDir].dest = "prev"

(* C17: at every point during and after an Install the destination is       *)
(* absent, or holds the whole old installation, or the whole new one.       *)
C17_DestinationNeverPartial ==
    InInstall =>
        disk[ResourceDir].dest \in {"absent", cur.before.dest, cur.args[1][1]}

-----------------------------------------------------------------------------
(* UpdateIndex and UpdateLibrariesIndex: the index files are downloaded     *)
(* into temporary entries of the system's temp folder and copied into the   *)
(* data directory.  disk[c].stored maps each stored index or signature      *)
(* file to the label of its content; snap records, for each update that     *)
(* got past its checks, the data directory as it was at entry.              *)

TrustedHost == "downloads.arduino.cc"
Hostname(u) == IF u = DefaultIndexURL THEN TrustedHost ELSE "example.com"
(* The signature branch is taken for the trusted host only.                 *)
SignatureRequiredNever(u) == FALSE
SignatureRequired(u) == Hostname(u) = TrustedHost
SigName(name) ==
    CASE name = "package_index" -> "package_index.sig"
      [] name = "third_index" -> "third_index.sig"
      [] name = "library_index" -> "library_index.sig"
      [] OTHER -> "index.sig"
Store(d, file, label) == [d EXCEPT !.stored = (file :> label) @@ @]
Unstore(d, files) ==
    [d EXCEPT !.stored = [f \in (DOMAIN @) \ files |-> @[f]]]

(* ioutil.TempFile followed by Close: the entries that exist afterwards,    *)
(* the ones whose removal has been deferred, and the error.                 *)
TempFileAlwaysDeferred(ds, createOk, closeOk) ==
    IF ~createOk
    THEN [dirs |-> ds, deferred |-> {}, err |-> "TempFileCreationFailed"]
    ELSE [dirs |-> ds \cup {FreshTemp},
          deferred |-> {FreshTemp},
          err |-> IF closeOk THEN "" ELSE "TempFileCreationFailed"]

TempFile(ds, createOk, closeOk) ==
    IF ~createOk
    THEN [dirs |-> ds, deferred |-> {}, err |-> "TempFileCreationFailed"]
    ELSE IF ~closeOk
    THEN [dirs |-> ds \cup {FreshTemp}, deferred |-> {},
          err |-> "TempFileCreationFailed"]
    ELSE [dirs |-> ds \cup {FreshTemp}, deferred |-> {FreshTemp}, err |-> ""]

(* A return of UpdateIndex or UpdateLibrariesIndex: the deferred removals   *)
(* run.                                                                     *)
IndexReturn(err, ds) ==
    /\ Return(err)
    /\ dirs' = ds \ cur.deferred

MaxIndexUpdates == 2

UpdateIndexEnter(id) ==
    /\ pc = "idle"
    /\ Len(snap) < MaxIndexUpdates
    /\ IF UpdateIndexResolve(id) # ""
       THEN /\ Reject("UpdateIndex", id, << >>, UpdateIndexResolve(id))
            /\ UNCHANGED <<instances, instancesCount, dirs, disk, created,
                           destroyed, snap>>
       ELSE /\ cur' = [op |-> "UpdateIndex", id |-> id, args |-> << >>,
                       urls |-> IndexURLs(DataOf(id)), i |-> 1,
                       deferred |-> {}, made |-> {}, tmp |-> << >>,
                       tmpSig |-> << >>]
            /\ snap' = Append(snap, [op |-> "UpdateIndex",
                                     disk |-> disk[DataOf(id)]])
            /\ pc' = "x_url"
            /\ sink' = << >>
            /\ oplog' = << >>
            /\ UNCHANGED <<instances, instancesCount, dirs, disk, call,
                           created, destroyed>>

(* The head of the loop body: parse the URL; a file URL is only checked.    *)
UpdateIndexURL(localOk) ==
    /\ pc = "x_url"
    /\ IF cur.i > Len(cur.urls)
       THEN IndexReturn("", dirs) /\ UNCHANGED <<cur, sink>>
       ELSE LET URL == URLParse(cur.urls[cur.i])
            IN IF URL.err
               THEN /\ cur' = [cur EXCEPT !.i = @ + 1]
                    /\ UNCHANGED <<pc, call, dirs, sink>>
               ELSE IF URL.Scheme = "file"
               THEN IF localOk
                    THEN /\ cur' = [cur EXCEPT !.i = @ + 1]
                         /\ sink' = Append(sink, <<"download", URL.Path, TRUE>>)
                         /\ UNCHANGED <<pc, call, dirs>>
                    ELSE /\ IndexReturn("InvalidArgument", dirs)
                         /\ UNCHANGED <<cur, sink>>
               ELSE /\ pc' = "x_tmp"
                    /\ UNCHANGED <<cur, call, dirs, sink>>
    /\ UNCHANGED <<instances, instancesCount, disk, oplog, created, destroyed,
                   snap>>

UpdateIndexTempFile(createOk, closeOk) ==
    /\ pc = "x_tmp"
    /\ createOk => HasFreshTemp
    /\ LET t == TempFile(dirs, createOk, closeOk)
       IN /\ oplog' = Append(oplog, <<"tempfile", "index",
                                      cur.urls[cur.i][2], t.err = "">>)
          /\ IF t.err # ""
             THEN /\ IndexReturn(t.err, t.dirs)
                  /\ cur' = [cur EXCEPT !.made = @ \cup (t.dirs \ dirs)]
             ELSE /\ dirs' = t.dirs
                  /\ cur' = [cur EXCEPT !.deferred = @ \cup t.deferred,
                                        !.made = @ \cup (t.dirs \ dirs),
                                        !.tmp = FreshTemp, !.tmpSig = << >>]
                  /\ pc' = "x_fetch"
                  /\ UNCHANGED call
    /\ UNCHANGED <<instances, instancesCount, disk, sink, created, destroyed,
                   snap>>

UpdateIndexFetch(configOk, startOk, transferOk) ==
    /\ pc = "x_fetch"
    /\ IF ~configOk \/ ~startOk \/ ~transferOk
       THEN /\ IndexReturn("FailedDownload", dirs)
            /\ sink' = IF configOk /\ startOk
                       THEN Append(sink, <<"download", cur.urls[cur.i][2], FALSE>>)
                       ELSE sink
       ELSE /\ pc' = IF SignatureRequired(cur.urls[cur.i])
                     THEN "x_sigtmp" ELSE "x_save"
            /\ sink' = Append(sink, <<"download", cur.urls[cur.i][2], TRUE>>)
            /\ UNCHANGED <<call, dirs>>
    /\ UNCHANGED <<instances, instancesCount, disk, cur, oplog, created,
                   destroyed, snap>>

UpdateIndexSigTempFile(createOk, closeOk) ==
    /\ pc = "x_sigtmp"
    /\ createOk => HasFreshTemp
    /\ LET t == TempFile(dirs, createOk, closeOk)
       IN /\ oplog' = Append(oplog, <<"tempfile", "signature",
                                      cur.urls[cur.i][2], t.err = "">>)
          /\ IF t.err # ""
             THEN /\ IndexReturn(t.err, t.dirs)
                  /\ cur' = [cur EXCEPT !.made = @ \cup (t.dirs \ dirs)]
             ELSE /\ dirs' = t.dirs
                  /\ cur' = [cur EXCEPT !.deferred = @ \cup t.deferred,
                                        !.made = @ \cup (t.dirs \ dirs),
                                        !.tmpSig = FreshTemp]
                  /\ pc' = "x_sigfetch"
                  /\ UNCHANGED call
    /\ UNCHANGED <<instances, instancesCount, disk, sink, created, destroyed,
                   snap>>

(* The signature is downloaded and checked against the index.               *)
UpdateIndexSigFetch(startOk, transferOk, verdict) ==
    /\ pc = "x_sigfetch"
    /\ LET err == IF ~startOk \/ ~transferOk THEN "FailedDownload"
                  ELSE IF verdict = "error" THEN "PermissionDenied"
                  ELSE IF verdict = "invalid" THEN "SignatureVerificationFailed"
                  ELSE ""
       IN /\ oplog' = Append(oplog, <<"verify", "signature",
                                      cur.urls[cur.i][2], err = "">>)
          /\ IF err # ""
             THEN IndexReturn(err, dirs)
             ELSE pc' = "x_save" /\ UNCHANGED <<call, dirs>>
    /\ UNCHANGED <<instances, instancesCount, disk, cur, sink, created,
                   destroyed, snap>>

(* The index is parsed and copied, then its signature if there is one.  A   *)
(* copy that fails may have written part of the file.                       *)
CopyOutcomes == {"ok", "nothing", "partial"}
CopyTo(d, file, label, outcome) ==
    IF outcome = "ok" THEN Store(d, file, label)
    ELSE IF outcome = "partial" THEN Store(d, file, "partial")
    ELSE d

UpdateIndexSave(loadOk, mkdirOk, copy, copySig) ==
    /\ pc = "x_save"
    /\ LET name == cur.urls[cur.i][2]
           d == disk[DataOf(cur.id)]
           d1 == IF loadOk /\ mkdirOk THEN CopyTo(d, name, "new", copy) ELSE d
           d2 == IF loadOk /\ mkdirOk /\ copy = "ok" /\ cur.tmpSig # << >>
                 THEN CopyTo(d1, SigName(name), "new", copySig) ELSE d1
           err == IF ~loadOk THEN "InvalidArgument"
                  ELSE IF ~mkdirOk \/ copy # "ok" THEN "PermissionDenied"
                  ELSE IF cur.tmpSig # << >> /\ copySig # "ok"
                       THEN "PermissionDenied"
                       ELSE ""
       IN /\ disk' = [disk EXCEPT ![DataOf(cur.id)] =
                        IF copy = "ok" /\ loadOk /\ mkdirOk
                        THEN [d2 EXCEPT !.indexes = @ \cup {name}] ELSE d2]
          /\ oplog' = Append(oplog, <<"save", "index", name, err = "">>)
          /\ IF err # ""
             THEN IndexReturn(err, dirs) /\ UNCHANGED cur
             ELSE /\ cur' = [cur EXCEPT !.i = @ + 1]
                  /\ pc' = "x_url"
                  /\ UNCHANGED <<call, dirs>>
    /\ UNCHANGED <<instances, instancesCount, sink, created, destroyed, snap>>

(* UpdateLibrariesIndex, up to the creation of its temporary folder.        *)
UpdateLibrariesIndexEnter(id, downloaderConfigOk, mkdirOk, mkTempOk) ==
    /\ pc = "idle"
    /\ Len(snap) < MaxIndexUpdates
    /\ LET err == IF UpdateLibrariesIndexResolve(id, downloaderConfigOk) # ""
                  THEN UpdateLibrariesIndexResolve(id, downloaderConfigOk)
                  ELSE IF ~mkdirOk THEN "PermissionDenied"
                  ELSE IF ~mkTempOk \/ ~HasFreshTemp THEN "TempDirCreationFailed"
                  ELSE ""
       IN IF err # ""
          THEN /\ Reject("UpdateLibrariesIndex", id, <<downloaderConfigOk>>, err)
               /\ UNCHANGED <<instances, instancesCount, dirs, disk, created,
                              destroyed, snap>>
          ELSE /\ cur' = [op |-> "UpdateLibrariesIndex", id |-> id,
                          args |-> <<downloaderConfigOk>>,
                          deferred |-> {FreshTemp}, made |-> {FreshTemp}]
               /\ snap' = Append(snap, [op |-> "UpdateLibrariesIndex",
                                        disk |-> disk[DataOf(id)]])
               /\ dirs' = dirs \cup {FreshTemp}
               /\ pc' = "l_fetch"
               /\ sink' = << >>
               /\ oplog' = << >>
               /\ UNCHANGED <<instances, instancesCount, disk, call, created,
                              destroyed>>

(* Both downloads, the extraction and the signature check.                  *)
LibraryIndexFaults == {"none", "index", "signature", "gunzip", "verify",
                       "invalid"}
LibraryIndexErrorDownloadsUnchecked(fault) ==
    CASE fault \in {"gunzip", "verify"} -> "PermissionDenied"
      [] fault = "invalid" -> "SignatureVerificationFailed"
      [] OTHER -> ""

LibraryIndexError(fault) ==
    CASE fault \in {"index", "signature"} -> "FailedDownload"
      [] fault \in {"gunzip", "verify"} -> "PermissionDenied"
      [] fault = "invalid" -> "SignatureVerificationFailed"
      [] OTHER -> ""

UpdateLibrariesIndexFetch(fault) ==
    /\ pc = "l_fetch"
    /\ sink' = IF fault = "index"
               THEN << <<"download", "library_index", FALSE>> >>
               ELSE << <<"download", "library_index", TRUE>>,
                       <<"download", "library_index.sig", fault # "signature">> >>
    /\ oplog' = Append(oplog, <<"verify", "signature", "library_index",
                                LibraryIndexError(fault) = "">>)
    /\ IF LibraryIndexError(fault) # ""
       THEN IndexReturn(LibraryIndexError(fault), dirs)
       ELSE pc' = "l_save" /\ UNCHANGED <<call, dirs>>
    /\ UNCHANGED <<instances, instancesCount, disk, cur, created, destroyed,
                   snap>>

(* The stored pair is removed, then the new index and the new signature     *)
(* are copied in.                                                           *)
UpdateLibrariesIndexSave(removeOk, copy, copySig) ==
    /\ pc = "l_save"
    /\ LET d == disk[DataOf(cur.id)]
           d0 == IF removeOk
                 THEN Unstore(d, {"library_index", SigName("library_index")})
                 ELSE d
           d1 == CopyTo(d0, "library_index", "new", copy)
           d2 == IF copy = "ok"
                 THEN CopyTo(d1, SigName("library_index"), "new", copySig)
                 ELSE d1
       IN /\ disk' = [disk EXCEPT ![DataOf(cur.id)] = d2]
          /\ oplog' = Append(oplog, <<"save", "index", "library_index",
                                      copy = "ok" /\ copySig = "ok">>)
          /\ IndexReturn(IF copy = "ok" /\ copySig = "ok" THEN ""
                         ELSE "PermissionDenied", dirs)
    /\ UNCHANGED <<instances, instancesCount, cur, sink, created, destroyed,
                   snap>>

(* The instance of the data directory cfgA exists; the data directory holds *)
(* no index yet or the pairs of an earlier update.                          *)
StoredChoices ==
    { << >>,
      ("package_index" :> "old") @@ ("package_index.sig" :> "old")
        @@ ("library_index" :> "old") @@ ("library_index.sig" :> "old") }

InitIndex ==
    /\ instances = (1 :> NewInstance(1, "cfgA"))
    /\ instancesCount = 2
    /\ dirs = {DownloadsDir("cfgA"), PackagesDir("cfgA")}
    /\ \E st \in StoredChoices :
         disk = [c \in Configs |->
                   IF c = "cfgA"
                   THEN [EmptyDisk EXCEPT !.stored = st,
                           !.indexes = IF st = << >> THEN {}
                                       ELSE {"package_index"}]
                   ELSE EmptyDisk]
    /\ pc = "idle"
    /\ cur = Idle
    /\ sink = << >>
    /\ oplog = << >>
    /\ call = NoCall
    /\ created = <<1>>
    /\ destroyed = {}
    /\ snap = << >>

TempFileFaults == {"none", "create", "close"}
FetchFaults == {"none", "config", "start", "transfer"}
SigFetchFaults == {"none", "start", "transfer", "error", "invalid"}
SaveFaults == {"none", "load", "mkdir"}

NextIndex ==
    \/ \E id \in IdInputs : UpdateIndexEnter(id)
    \/ \E localOk \in BOOLEAN : UpdateIndexURL(localOk)
    \/ \E f \in TempFileFaults : UpdateIndexTempFile(f # "create", f # "close")
    \/ \E f \in FetchFaults :
         UpdateIndexFetch(f # "config", f # "start", f # "transfer")
    \/ \E f \in TempFileFaults : UpdateIndexSigTempFile(f # "create", f # "close")
    \/ \E f \in SigFetchFaults :
         UpdateIndexSigFetch(f # "start", f # "transfer",
                             IF f \in {"error", "invalid"} THEN f ELSE "valid")
    \/ \E f \in SaveFaults, copy, copySig \in CopyOutcomes :
         UpdateIndexSave(f # "load", f # "mkdir", copy, copySig)
    \/ \E id \in IdInputs, f \in {"none", "config", "mkdir", "mktemp"} :
         UpdateLibrariesIndexEnter(id, f # "config", f # "mkdir", f # "mktemp")
    \/ \E f \in LibraryIndexFaults : UpdateLibrariesIndexFetch(f)
    \/ \E removeOk \in BOOLEAN, copy, copySig \in CopyOutcomes :
         UpdateLibrariesIndexSave(removeOk, copy, copySig)

SpecIndex == InitIndex /\ [][NextIndex]_vars

-----------------------------------------------------------------------------
(* Temporary entries.                                                       *)

IndexUpdateReturned ==
    pc = "idle" /\ cur.op \in {"UpdateIndex", "UpdateLibrariesIndex"}

(* The temporary folder of Install is gone when Install has returned.       *)
InstallTempRemoved ==
    (InstallReturned /\ cur.tempDir # << >>) => cur.tempDir \notin dirs

(* The temporary folder of UpdateLibrariesIndex is gone when it returned.   *)
LibrariesIndexTempRemoved ==
    (pc = "idle" /\ cur.op = "UpdateLibrariesIndex") => cur.made \cap dirs = {}

(* C18: when UpdateIndex or UpdateLibrariesIndex has returned, none of the  *)
(* temporary entries it created is left, whatever the way it returned.      *)
C18_TempEntriesRemovedOnReturn ==
    IndexUpdateReturned => cur.made \cap dirs = {}

-----------------------------------------------------------------------------
(* Outdated: the libraries and the platforms that can be updated.           *)

(* The loop over lm.Libraries: a user library with an update in the index.  *)
OutdatedLibrariesAnyLocation(lm) ==
    {[Library |-> l, Release |-> MaxVersion(FindLibraryUpdate(lm, l))] :
        l \in {x \in lm.libraries : FindLibraryUpdate(lm, x) # {}}}

OutdatedLibraries(lm) ==
    {[Library |-> l, Release |-> MaxVersion(FindLibraryUpdate(lm, l))] :
        l \in {x \in lm.libraries :
                 x[3] = "user" /\ FindLibraryUpdate(lm, x) # {}}}

(* The loop over pm.Packages and their Platforms: the latest release, with  *)
(* the installed version attached, when it is not the installed release.    *)
OutdatedPlatformsEveryInstalled(pm) ==
    {[Release |-> MaxVersion(GetLatestRelease(pm, p)),
      Installed |-> MaxVersion(GetInstalledPlatformRelease(pm, p))[2]] :
        p \in {x \in PlatformsOf(pm) :
                 /\ GetInstalledPlatformRelease(pm, x) # {}
                 /\ GetLatestRelease(pm, x) # {}}}

OutdatedPlatforms(pm) ==
    {[Release |-> MaxVersion(GetLatestRelease(pm, p)),
      Installed |-> MaxVersion(GetInstalledPlatformRelease(pm, p))[2]] :
        p \in {x \in PlatformsOf(pm) :
                 /\ GetInstalledPlatformRelease(pm, x) # {}
                 /\ GetLatestRelease(pm, x) # {}
                 /\ GetLatestRelease(pm, x) # GetInstalledPlatformRelease(pm, x)}}

(* What the body of Outdated assigns outside its locals: nothing.           *)
OutdatedFrameReload(id) ==
    /\ instances' = [instances EXCEPT ![id].packageManager =
                       LoadHardware(@, disk[DataOf(id)])]
    /\ UNCHANGED <<instancesCount, dirs, disk, created, destroyed, snap>>

OutdatedFrame(id) ==
    UNCHANGED <<instances, instancesCount, dirs, disk, created, destroyed, snap>>

Outdated(id) ==
    /\ pc = "idle"
    /\ IF OutdatedResolve(id) # ""
       THEN /\ Reject("Outdated", id, << >>, OutdatedResolve(id))
            /\ UNCHANGED <<instances, instancesCount, dirs, disk, created,
                           destroyed, snap>>
       ELSE /\ call' = [op |-> "Outdated", id |-> {id}, dead |-> FALSE,
                        args |-> << >>, err |-> "",
                        out |-> {[OutdatedLibraries |->
                                     OutdatedLibraries(LMof(id)),
                                  OutdatedPlatforms |->
                                     OutdatedPlatforms(PMof(id))]}]
            /\ cur' = [op |-> "Outdated", id |-> id, args |-> << >>,
                       entry |-> PMof(id), entryLM |-> LMof(id)]
            /\ sink' = << >>
            /\ oplog' = << >>
            /\ UNCHANGED pc
            /\ OutdatedFrame(id)

NextOutdated ==
    \/ NextUpgrade
    \/ \E id \in IdInputs : Outdated(id)

SpecOutdated == InitUpgrade /\ [][NextOutdated]_vars

-----------------------------------------------------------------------------
(* Properties of Outdated (SpecOutdated).                                   *)

OutdatedStep ==
    pc = "idle" /\ pc' = "idle" /\ call'.op = "Outdated" /\ call'.err = ""
      /\ cur'.op = "Outdated"

(* C19: a call of Outdated changes neither the registry, nor the graph and  *)
(* the library model of any instance, nor what is installed or cached on    *)
(* disk, and it starts no download.                                         *)
C19_OutdatedIsPureRead ==
    [][OutdatedStep =>
         /\ instances' = instances
         /\ instancesCount' = instancesCount
         /\ disk' = disk
         /\ dirs' = dirs
         /\ oplog' = << >> /\ sink' = << >>]_vars

C19_Witness ==
    /\ pc = "idle" /\ cur.op = "Outdated" /\ call.op = "Outdated"
    /\ call.err = ""
    /\ \E resp \in call.out : resp.OutdatedPlatforms # {}
    /\ disk["cfgA"].platforms # {}

OutdatedAnswered ==
    pc = "idle" /\ cur.op = "Outdated" /\ call.op = "Outdated" /\ call.err = ""

(* C20: the answer of Outdated holds a platform exactly when the platform   *)
(* has an installed release and a latest release and the two differ, as the *)
(* latest release with the installed version attached; it holds a library   *)
(* exactly when the library is user-installed and the index has an update   *)
(* for it.                                                                  *)
C20_OutdatedReportsExactlyTheOutdated ==
    OutdatedAnswered =>
      \A resp \in call.out :
        /\ \A p \in PlatformsOf(cur.entry) :
             LET inst == GetInstalledPlatformRelease(cur.entry, p)
                 latest == GetLatestRelease(cur.entry, p)
                 entries == {e \in resp.OutdatedPlatforms : e.Release[1] = p}
             IN IF inst # {} /\ latest # {} /\ inst # latest
                THEN entries = {[Release |-> MaxVersion(latest),
                                 Installed |-> MaxVersion(inst)[2]]}
                ELSE entries = {}
        /\ \A e \in resp.OutdatedPlatforms : e.Release[1] \in PlatformsOf(cur.entry)
        /\ \A l \in cur.entryLM.libraries :
             LET entries == {e \in resp.OutdatedLibraries : e.Library = l}
             IN IF l[3] = "user" /\ FindLibraryUpdate(cur.entryLM, l) # {}
                THEN entries = {[Library |-> l,
                                 Release |-> MaxVersion(
                                     FindLibraryUpdate(cur.entryLM, l))]}
                ELSE entries = {}
        /\ \A e \in resp.OutdatedLibraries : e.Library \in cur.entryLM.libraries

(* An answer that reports one platform and leaves out another that is       *)
(* installed at its latest release.                                         *)
C20_Witness ==
    /\ OutdatedAnswered
    /\ \E resp \in call.out :
         /\ resp.OutdatedPlatforms # {}
         /\ resp.OutdatedLibraries # {}
         /\ \E p \in PlatformsOf(cur.entry) :
              /\ GetInstalledPlatformRelease(cur.entry, p) # {}
              /\ GetInstalledPlatformRelease(cur.entry, p)
                   = GetLatestRelease(cur.entry, p)

-----------------------------------------------------------------------------
(* Two instances: instance 1 is loaded on the data directory cfgA; another  *)
(* instance is created on cfgB, initialized, upgraded and destroyed, while  *)
(* Outdated is asked of instance 1.  cfgB holds arch2@1, which cfgA never   *)
(* holds.                                                                   *)

OtherIds == IdInputs \ {1}

InitIsolation ==
    /\ instances = (1 :> LoadedInstance({<<"arch1", 1>>}, {<<"toolX", 1>>},
                                        IndexToolReleases,
                                        {<<"libL", 1, "user">>}))
    /\ instancesCount = 2
    /\ dirs = {DownloadsDir("cfgA"), PackagesDir("cfgA")}
    /\ disk = [c \in Configs |->
                 IF c = "cfgA"
                 THEN [EmptyDisk EXCEPT !.platforms = {<<"arch1", 1>>},
                                        !.tools = {<<"toolX", 1>>},
                                        !.libs = {<<"libL", 1>>},
                                        !.indexes = {"package_index"}]
                 ELSE [EmptyDisk EXCEPT
                         !.platforms = {<<"arch2", 1>>},
                         !.tools = ToolsNeeded({<<"arch2", 1>>}),
                         !.libs = {<<"libL", 1>>},
                         !.indexes = {"package_index"}]]
    /\ pc = "idle"
    /\ cur = Idle
    /\ sink = << >>
    /\ oplog = << >>
    /\ call = NoCall
    /\ created = <<1>>
    /\ destroyed = {}
    /\ snap = << >>

NextIsolation ==
    \/ \E mkDownloads, mkData \in BOOLEAN : Create("cfgB", mkDownloads, mkData)
    \/ \E id \in OtherIds : Destroy(id)
    \/ \E id \in OtherIds : InitEnter(id)
    \/ InitLoadIndex
    \/ InitLoadHardware
    \/ \E name \in BuiltinTools : InitBuiltinTool(name)
    \/ InitInstallTool(TRUE, TRUE)
    \/ InitReload
    \/ InitLoadLibraries(TRUE, TRUE, TRUE)
    \/ \E id \in OtherIds : UpgradeEnter(id, FALSE, TRUE)
    \/ /\ pc = "u_libs"
       /\ \E library \in cur.libTodo : UpgradeLibrary(library, TRUE, TRUE, TRUE)
    \/ UpgradeLibrariesDone
    \/ /\ pc = "u_plats"
       /\ \E platform \in cur.platTodo : UpgradePlatform(platform)
    \/ UpgradeReturn
    \/ UpgradeDownloadTool(TRUE)
    \/ UpgradeDownloadPlatform(TRUE)
    \/ UpgradeInstallTool(TRUE)
    \/ \E ok \in BOOLEAN : UpgradeInstallPlatform(ok)
    \/ \E ok \in BOOLEAN : UpgradeUninstallOld(ok)
    \/ \E ok \in BOOLEAN : UpgradeRollback(ok)
    \/ UpgradeUninstallTool(TRUE)
    \/ UpgradePostInstall(TRUE)
    \/ Outdated(1)

SpecIsolation == InitIsolation /\ [][NextIsolation]_vars


(* What Outdated answers for instance 1 in the current state.               *)
AnswerOfFirst == [OutdatedLibraries |-> OutdatedLibraries(LMof(1)),
                  OutdatedPlatforms |-> OutdatedPlatforms(PMof(1))]

(* C21: no step of Create, Init, Upgrade or Destroy on another instance     *)
(* changes the package manager, the library manager, the data directory or  *)
(* the Outdated answer of instance 1, and that answer never names a         *)
(* platform that is not installed under the data directory of instance 1.   *)
C21_InstancesAreIsolated ==
    [][/\ 1 \in DOMAIN instances'
       /\ instances'[1] = instances[1]
       /\ disk'["cfgA"] = disk["cfgA"]
       /\ AnswerOfFirst' = AnswerOfFirst
       /\ \A e \in AnswerOfFirst.OutdatedPlatforms :
             <<e.Release[1], e.Installed>> \in disk["cfgA"].platforms
       /\ (call'.op = "Outdated" /\ call'.err = "")
             => call'.out = {AnswerOfFirst}]_vars

(* Outdated answered for instance 1 while a second instance, initialized on *)
(* cfgB and upgraded there, has arch2 installed.                            *)
C21_Witness ==
    /\ call.op = "Outdated" /\ call.id = {1} /\ call.err = ""
    /\ \E resp \in call.out : resp.OutdatedPlatforms # {}
    /\ 2 \in DOMAIN instances
    /\ <<"arch2", 1>> \in PMof(2).installed
    /\ <<"arch2", 2>> \in disk["cfgB"].platforms

-----------------------------------------------------------------------------
(* Handlers run in the goroutine of their request and take no lock: a       *)
(* second request is served while the first one is between two of its       *)
(* steps.  Here a whole Init runs, its tool installs succeeding, while an   *)
(* Upgrade is under way.                                                    *)

RECURSIVE LoadIndexes(_, _, _, _)
LoadIndexes(pm, d, urls, i) ==
    IF i > Len(urls) THEN pm
    ELSE IF URLParse(urls[i]).err THEN LoadIndexes(pm, d, urls, i + 1)
    ELSE LoadIndexes(LoadPackageIndex(pm, d, URLParse(urls[i]).Path).pm,
                     d, urls, i + 1)

(* The instance and its data directory after Init: the graph is cleared,    *)
(* the indexes and the hardware are loaded, the missing builtin tools are   *)
(* installed and the hardware loaded again if one was, the libraries are    *)
(* scanned.                                                                 *)
InitRun(inst, d) ==
    LET pm1 == LoadIndexes(InitialGraph(inst.packageManager), d,
                           IndexURLs(inst.Settings), 1)
        pm2 == LoadHardware(pm1, d)
        missing == {t \in UNION {LatestRelease(pm2, name) :
                                    name \in pm2.tools \cap BuiltinTools} :
                      installToolIfMissing(pm2, t, TRUE, TRUE).installed}
        d2 == [d EXCEPT !.cache = @ \cup missing, !.tools = @ \cup missing]
        pm3 == IF ReloadNeeded(missing # {}) THEN LoadHardware(pm2, d2) ELSE pm2
    IN [inst |-> [inst EXCEPT
                    !.packageManager = pm3,
                    !.librariesManager =
                        [index |-> IndexLibraries,
                         libraries |-> {<<l[1], l[2], "user">> : l \in d2.libs}]],
        disk |-> d2]

(* Init's only check is that the instance exists.                           *)
InitOverlapping(id) ==
    /\ pc # "idle"
    /\ InitResolve(id) = ""
    /\ instances' = [instances EXCEPT
                       ![id] = InitRun(@, disk[DataOf(id)]).inst]
    /\ disk' = [disk EXCEPT
                  ![DataOf(id)] = InitRun(instances[id], @).disk]
    /\ call' = [op |-> "Init", id |-> {id}, dead |-> FALSE, args |-> << >>,
                err |-> "", out |-> {}]
    /\ UNCHANGED <<instancesCount, dirs, pc, cur, sink, oplog, created,
                   destroyed, snap>>

NextOverlap ==
    \/ NextUpgrade
    \/ \E id \in IdInputs : InitOverlapping(id)

SpecOverlap == InitUpgrade /\ [][NextOverlap]_vars

(* C22: while an Upgrade is running on an instance, no Init runs on that    *)
(* instance.                                                                *)
C22_MutatingOperationsExclusive ==
    (pc # "idle" /\ cur.op = "Upgrade")
        => ~(call.op = "Init" /\ call.id = {cur.id})

-----------------------------------------------------------------------------
(* The registry under concurrent requests.  Create reads instancesCount     *)
(* into instanceID, stores the instance under it and increments the         *)
(* counter, in three statements and without a lock: another request is      *)
(* served between the read and the store.                                   *)

SaveInstance(insts, instanceID, configFile) ==
    [i \in DOMAIN insts \cup {instanceID} |->
        IF i = instanceID THEN NewInstance(instanceID, configFile)
        ELSE insts[i]]

(* Create up to instanceID := instancesCount.                               *)
CreateBegin(configFile, mkDownloads, mkData) ==
    /\ pc = "idle"
    /\ Len(created) < MaxCreates
    /\ dirs' = DirsAfterCreate(configFile, mkDownloads, mkData)
    /\ sink' = << >>
    /\ oplog' = << >>
    /\ IF CreateError(configFile, mkDownloads, mkData) # ""
       THEN /\ call' = [op |-> "Create", id |-> {}, dead |-> FALSE,
                        args |-> <<configFile, mkDownloads, mkData>>,
                        err |-> CreateError(configFile, mkDownloads, mkData),
                        out |-> {}]
            /\ UNCHANGED <<pc, cur>>
       ELSE /\ cur' = [op |-> "Create", id |-> instancesCount,
                       args |-> <<configFile, mkDownloads, mkData>>]
            /\ pc' = "c_save"
            /\ UNCHANGED call
    /\ UNCHANGED <<instances, instancesCount, disk, created, destroyed, snap>>

(* instances[instanceID] = instance; instancesCount++; return.              *)
CreateSave ==
    /\ pc = "c_save"
    /\ instances' = SaveInstance(instances, cur.id, cur.args[1])
    /\ instancesCount' = Int32Succ(instancesCount)
    /\ created' = Append(created, cur.id)
    /\ call' = [op |-> "Create", id |-> {}, dead |-> FALSE, args |-> cur.args,
                err |-> "", out |-> {cur.id}]
    /\ pc' = "idle"
    /\ UNCHANGED <<dirs, disk, cur, sink, oplog, destroyed, snap>>

(* A whole Create of another request, served in between.                    *)
CreateOverlapping(configFile) ==
    /\ pc = "c_save"
    /\ Len(created) < MaxCreates
    /\ dirs' = DirsAfterCreate(configFile, TRUE, TRUE)
    /\ instances' = SaveInstance(instances, instancesCount, configFile)
    /\ instancesCount' = Int32Succ(instancesCount)
    /\ created' = Append(created, instancesCount)
    /\ call' = [op |-> "Create", id |-> {}, dead |-> FALSE,
                args |-> <<configFile, TRUE, TRUE>>,
                err |-> "", out |-> {instancesCount}]
    /\ UNCHANGED <<disk, pc, cur, sink, oplog, destroyed, snap>>

(* A whole Destroy of another request, served in between.                   *)
DestroyOverlapping(id) ==
    /\ pc = "c_save"
    /\ id \in DOMAIN instances
    /\ instances' = [i \in DOMAIN instances \ {id} |-> instances[i]]
    /\ destroyed' = destroyed \cup {id}
    /\ call' = [op |-> "Destroy", id |-> {id}, dead |-> Dead(id),
                args |-> << >>, err |-> "", out |-> {}]
    /\ UNCHANGED <<instancesCount, dirs, disk, pc, cur, sink, oplog, created,
                   snap>>

InitRace ==
    /\ instances = [i \in {} |-> NewInstance(i, "")]
    /\ instancesCount = 1
    /\ dirs = {}
    /\ disk = [c \in Configs |-> EmptyDisk]
    /\ pc = "idle"
    /\ cur = Idle
    /\ sink = << >>
    /\ oplog = << >>
    /\ call = NoCall
    /\ created = << >>
    /\ destroyed = {}
    /\ snap = << >>

NextRace ==
    \/ \E configFile \in Configs \cup {""}, mkDownloads, mkData \in BOOLEAN :
          CreateBegin(configFile, mkDownloads, mkData)
    \/ CreateSave
    \/ \E configFile \in Configs : CreateOverlapping(configFile)
    \/ \E id \in IdInputs : DestroyOverlapping(id)
    \/ \E id \in IdInputs : Destroy(id)
    \/ \E which \in {"GetPackageManager", "GetLibraryManager"}, id \in IdInputs :
          Lookup(which, id)

SpecRace == InitRace /\ [][NextRace]_vars

(* C23: the ids returned by Create are pairwise distinct, and every         *)
(* instance that was created and not destroyed is registered under its id.  *)
C23_RegistrySynchronized ==
    /\ \A j, k \in DOMAIN created : j # k => created[j] # created[k]
    /\ \A id \in Range(created) \ destroyed : id \in DOMAIN instances

-----------------------------------------------------------------------------
(* Upgrade called without a task progress callback (taskCB is nil).  Init   *)
(* replaces a nil callback by a function that does nothing before it uses   *)
(* it; Upgrade calls taskCB as it was given.                                *)

(* The request was made with a nil taskCB: recorded as a third argument.    *)
NilSink == cur.op = "Upgrade" /\ Len(cur.args) = 3

UpgradeEnterNoSink(id, skipPostInstall, downloaderConfigOk) ==
    /\ pc = "idle"
    /\ UpgradeResolve(id, downloaderConfigOk) = ""
    /\ pc' = "u_libs"
    /\ cur' = [UpgradeLocals(id, skipPostInstall, downloaderConfigOk)
                  EXCEPT !.args = Append(@, "nil")]
    /\ sink' = << >>
    /\ oplog' = << >>
    /\ call' = NoCall
    /\ UNCHANGED <<instances, instancesCount, dirs, disk, created, destroyed, snap>>

(* The iteration of the library loop gets to its first taskCB call.         *)
LibraryCallsTaskCB(lm, library) ==
    library[3] = "user" /\ FindLibraryUpdate(lm, library) # {}

(* The iteration of the platform loop gets to its first taskCB call.        *)
PlatformCallsTaskCB(pm, platform) ==
    LET installedRelease == GetInstalledPlatformRelease(pm, platform)
        latest == GetLatestRelease(pm, platform)
    IN  /\ installedRelease # {}
        /\ latest # {}
        /\ latest # installedRelease
        /\ ~FindPlatformReleaseDependencies(
               pm, CHOOSE r \in installedRelease : TRUE).err

(* Calling the nil taskCB is a nil function call: the handler panics, it    *)
(* never returns a result.                                                  *)
UpgradeNilCallback ==
    /\ NilSink
    /\ \/ /\ pc = "u_libs"
          /\ \E library \in cur.libTodo : LibraryCallsTaskCB(LMof(cur.id), library)
       \/ /\ pc = "u_plats"
          /\ \E platform \in cur.platTodo :
                 PlatformCallsTaskCB(PMof(cur.id), platform)
    /\ Return("panic")
    /\ UNCHANGED <<instances, instancesCount, dirs, disk, cur, sink, oplog,
                   created, destroyed, snap>>

(* The iterations that call no callback run as they do with a callback.     *)
UpgradeLibraryNoSink(library) ==
    /\ NilSink
    /\ ~LibraryCallsTaskCB(LMof(cur.id), library)
    /\ UpgradeLibrary(library, TRUE, TRUE, TRUE)

UpgradePlatformNoSink(platform) ==
    /\ NilSink
    /\ ~PlatformCallsTaskCB(PMof(cur.id), platform)
    /\ UpgradePlatform(platform)

NextNoSink ==
    \/ ~NilSink /\ NextUpgrade
    \/ /\ call = NoCall
       /\ \E id \in IdInputs, skipPostInstall \in BOOLEAN :
              UpgradeEnterNoSink(id, skipPostInstall, TRUE)
    \/ /\ pc = "u_libs"
       /\ \E library \in cur.libTodo : UpgradeLibraryNoSink(library)
    \/ /\ pc = "u_plats"
       /\ \E platform \in cur.platTodo : UpgradePlatformNoSink(platform)
    \/ NilSink /\ UpgradeLibrariesDone
    \/ NilSink /\ UpgradeReturn
    \/ UpgradeNilCallback

SpecNoSink == InitUpgrade /\ [][NextNoSink]_vars

(* C24: a missing progress sink is legal: an Upgrade called with a nil      *)
(* callback runs to completion and returns a result, as it does with a      *)
(* callback.                                                                *)
C24_MissingSinkIsLegal ==
    (NilSink /\ pc = "idle" /\ call.op = "Upgrade") => call.err # "panic"

-----------------------------------------------------------------------------
(* UpdateIndex: the signature of the indexes.                               *)

(* An UpdateIndex that passed its instance lookup is running, or is the     *)
(* last handler that returned.                                              *)
InUpdateIndex ==
    /\ cur.op = "UpdateIndex"
    /\ pc = "idle" => call.op = "UpdateIndex" /\ call.err # "InvalidInstance"

(* The data directory as it was when the running UpdateIndex was entered.   *)
AtIndexEntry == snap[Len(snap)].disk

(* The signature downloaded for the index of URL u was found valid.         *)
SignatureVerified(u) ==
    \E k \in DOMAIN oplog : oplog[k] = <<"verify", "signature", u[2], TRUE>>
SignatureTried(u) ==
    \E k \in DOMAIN oplog : oplog[k][1] \in {"verify", "tempfile"}
                            /\ oplog[k][2] = "signature" /\ oplog[k][3] = u[2]

(* The save of the index of URL u was started (parse, then copy).           *)
SaveReached(u) ==
    \E k \in DOMAIN oplog : oplog[k][1] = "save" /\ oplog[k][3] = u[2]

StoredChanged(name) ==
    LET now == disk[DataOf(cur.id)].stored
        was == AtIndexEntry.stored
    IN  \/ (name \in DOMAIN now) # (name \in DOMAIN was)
        \/ name \in DOMAIN now /\ name \in DOMAIN was /\ now[name] # was[name]

(* C25: UpdateIndex saves an index of the trusted host only after its       *)
(* signature was downloaded and found valid; when the signature is invalid  *)
(* the call fails and no stored file has changed; an index of another host  *)
(* is saved without any signature being fetched or checked.                 *)
C25_SignatureOnlyForTrustedHost ==
    InUpdateIndex =>
        \A i \in DOMAIN cur.urls :
            LET u == cur.urls[i]
            IN  IF Hostname(u) = TrustedHost
                THEN /\ SaveReached(u) => SignatureVerified(u)
                     /\ (StoredChanged(u[2]) \/ StoredChanged(SigName(u[2])))
                            => SignatureVerified(u)
                     /\ (pc = "idle" /\ call.err = "SignatureVerificationFailed"
                         /\ cur.i = i)
                            => ~StoredChanged(u[2]) /\ ~StoredChanged(SigName(u[2]))
                ELSE /\ ~SignatureTried(u)
                     /\ StoredChanged(SigName(u[2])) = FALSE

(* Both indexes were saved by one call: the trusted one after its check,    *)
(* the other one with no check.                                             *)
C25_Witness ==
    /\ InUpdateIndex /\ pc = "idle" /\ call.err = ""
    /\ SignatureVerified(DefaultIndexURL)
    /\ StoredChanged("package_index")
    /\ StoredChanged("third_index")
    /\ ~SignatureTried(<<"https", "third_index">>)

-----------------------------------------------------------------------------
(* The target-board resolver step of the build (TargetBoardResolver.Run).   *)

(* Packages, boards of each platform, and the build.core property of each   *)
(* board, a string written as the sequence of its characters.  boardZ has   *)
(* no build.core; boardY, boardT and boardU name a core of package "v",     *)
(* which is vendorA; boardW names a core of a package that is not known.    *)
KnownPackages == {"vendorA"}
BoardsOf(platform) ==
    IF platform = "arch1"
    THEN {"boardZ", "boardY", "boardW", "boardT", "boardU"}
    ELSE {"boardX"}
BuildCoreOf(board) ==
    CASE board = "boardY" -> <<"v", ":", "c">>
      [] board = "boardW" -> <<"w", ":", "c">>
      [] board = "boardT" -> <<"v", ":">>
      [] board = "boardU" -> <<"v", ":", "c", ":", "d">>
      [] board = "boardX" -> <<"c", "d">>
      [] OTHER -> << >>
PackageNamed(prefix) == IF prefix = <<"v">> THEN "vendorA" ELSE "unknown"

FQBNs ==
    {<<"vendorA", "arch1", "boardZ">>, <<"vendorA", "arch1", "boardY">>,
     <<"vendorA", "arch1", "boardW">>, <<"vendorA", "arch1", "boardQ">>,
     <<"vendorA", "arch1", "boardT">>, <<"vendorA", "arch1", "boardU">>,
     <<"vendorA", "arch2", "boardX">>, <<"vendorA", "arch9", "boardZ">>,
     <<"vendorB", "arch1", "boardZ">>}

(* Properties are key and value pairs; Get gives the value of a key, the    *)
(* empty string when the key is missing.                                    *)
Get(props, key) ==
    IF \E i \in DOMAIN props : props[i][1] = key
    THEN props[CHOOSE i \in DOMAIN props :
                   /\ props[i][1] = key
                   /\ \A j \in DOMAIN props : props[j][1] = key => i <= j][2]
    ELSE << >>

(* The properties of the board itself, and the merged build properties:     *)
(* the defaults of the platform overlaid by those of the board.             *)
BoardProperties(board) ==
    IF BuildCoreOf(board) = << >> THEN << >>
    ELSE << <<"build.core", BuildCoreOf(board)>> >>
MergedProperties(platform, board) ==
    BoardProperties(board) \o << <<"build.arch", <<platform>>>> >>

(* strings.Index(s, ch): the 0-based position of the first ch, or -1.       *)
Index(s, ch) ==
    IF \E i \in DOMAIN s : s[i] = ch
    THEN (CHOOSE i \in DOMAIN s :
              s[i] = ch /\ \A j \in DOMAIN s : s[j] = ch => i <= j) - 1
    ELSE -1

(* ResolveFQBN: package, platform, installed release, board, then the       *)
(* platform of the core.  On a failure the values found so far are          *)
(* returned when partial holds, none otherwise; << >> is nil.  A board is   *)
(* its platform, its name and its properties.                               *)
ResolveFQBN(pm, fqbn, partial) ==
    LET release == GetInstalledPlatformRelease(pm, fqbn[2])
        core == BuildCoreOf(fqbn[3])
        board == <<fqbn[2], fqbn[3], BoardProperties(fqbn[3])>>
        merged == MergedProperties(fqbn[2], fqbn[3])
        fail(pkg, plat, b, props) ==
            [targetPackage |-> IF partial THEN pkg ELSE << >>,
             targetPlatform |-> IF partial THEN plat ELSE << >>,
             targetBoard |-> IF partial THEN b ELSE << >>,
             buildProperties |-> IF partial THEN props ELSE << >>,
             actualPlatform |-> << >>, err |-> "UnknownFQBN"]
        rel == CHOOSE r \in release : TRUE
    IN  IF fqbn[1] \notin KnownPackages THEN fail(<< >>, << >>, << >>, << >>)
        ELSE IF fqbn[2] \notin PlatformsOf(pm)
        THEN fail(<<fqbn[1]>>, << >>, << >>, << >>)
        ELSE IF release = {} THEN fail(<<fqbn[1]>>, << >>, << >>, << >>)
        ELSE IF fqbn[3] \notin BoardsOf(fqbn[2])
        THEN fail(<<fqbn[1]>>, rel, << >>, << >>)
        ELSE IF /\ Index(core, ":") >= 0
                /\ PackageNamed(SubSeq(core, 1, Index(core, ":")))
                       \notin KnownPackages
        THEN fail(<<fqbn[1]>>, rel, board, merged)
        ELSE [targetPackage |-> <<fqbn[1]>>, targetPlatform |-> rel,
              targetBoard |-> board,
              buildProperties |-> merged,
              actualPlatform |-> rel, err |-> ""]

Arduino == <<"a", "r", "d", "u", "i", "n", "o">>

(* The core name is the property as it is, without the default and without  *)
(* the cut at the colon.                                                    *)
CoreNameWhole(core) == core

(* core = "arduino" when empty, then core[strings.Index(core, ":")+1:].     *)
CoreName(core) ==
    LET c == IF core = << >> THEN Arduino ELSE core
    IN  SubSeq(c, Index(c, ":") + 2, Len(c))

(* Run with the error of the resolution ignored: the context is assigned    *)
(* from whatever was returned, and a nil board is dereferenced.             *)
RunUnchecked(ctx, r) ==
    IF r.targetBoard = << >>
    THEN [ctx |-> ctx, err |-> "panic", infos |-> << >>]
    ELSE [ctx |-> [ctx EXCEPT
                      !.BuildCore = CoreName(Get(r.buildProperties, "build.core")),
                      !.TargetBoard = [r.targetBoard EXCEPT ![3] = r.buildProperties],
                      !.TargetPlatform = r.targetPlatform,
                      !.TargetPackage = r.targetPackage,
                      !.ActualPlatform = r.actualPlatform],
          err |-> "", infos |-> << >>]

(* TargetBoardResolver.Run on the result r of ResolveFQBN.                  *)
Run(ctx, r) ==
    IF r.err # ""
    THEN [ctx |-> ctx, err |-> "Error resolving FQBN", infos |-> << >>]
    ELSE IF r.targetBoard = << >>
    THEN [ctx |-> ctx, err |-> "panic", infos |-> << >>]
    ELSE LET targetBoard == [r.targetBoard EXCEPT ![3] = r.buildProperties]
             core == CoreName(Get(targetBoard[3], "build.core"))
         IN  [ctx |-> [ctx EXCEPT !.BuildCore = core,
                                  !.TargetBoard = targetBoard,
                                  !.TargetPlatform = r.targetPlatform,
                                  !.TargetPackage = r.targetPackage,
                                  !.ActualPlatform = r.actualPlatform],
              err |-> "",
              infos |-> IF ctx.Verbose
                        THEN << <<"Using board", targetBoard[2], r.targetPlatform>>,
                                <<"Using core", core, r.actualPlatform>> >>
                        ELSE << >>]

(* A build context on the package manager of instance id.                   *)
ContextNew(id, fqbn, verbose) ==
    /\ pc = "idle"
    /\ id \in DOMAIN instances
    /\ pc' = "b_ready"
    /\ cur' = [op |-> "Build", id |-> id, args |-> << >>, FQBN |-> fqbn,
               Verbose |-> verbose, BuildCore |-> << >>, TargetBoard |-> << >>,
               TargetPlatform |-> << >>, TargetPackage |-> << >>,
               ActualPlatform |-> << >>]
    /\ call' = NoCall
    /\ sink' = << >>
    /\ UNCHANGED <<instances, instancesCount, dirs, disk, oplog, created,
                   destroyed, snap>>

(* The context is used for another board.                                   *)
ContextSetFQBN(fqbn) ==
    /\ pc = "b_ready"
    /\ fqbn # cur.FQBN
    /\ cur' = [cur EXCEPT !.FQBN = fqbn]
    /\ call' = NoCall
    /\ sink' = << >>
    /\ UNCHANGED <<instances, instancesCount, dirs, disk, pc, oplog, created,
                   destroyed, snap>>

(* The resolver step runs; the context it was given is kept in call.out.    *)
TargetBoardResolverRun(partial) ==
    /\ pc = "b_ready"
    /\ call = NoCall
    /\ LET res == Run(cur, ResolveFQBN(PMof(cur.id), cur.FQBN, partial))
       IN  /\ cur' = res.ctx
           /\ sink' = res.infos
           /\ call' = [op |-> "TargetBoardResolver", id |-> {cur.id},
                       dead |-> FALSE, args |-> cur.FQBN, err |-> res.err,
                       out |-> {cur}]
    /\ UNCHANGED <<instances, instancesCount, dirs, disk, pc, oplog, created,
                   destroyed, snap>>

NextResolver ==
    \/ \E id \in IdInputs, fqbn \in FQBNs, verbose \in BOOLEAN :
           ContextNew(id, fqbn, verbose)
    \/ \E fqbn \in FQBNs : ContextSetFQBN(fqbn)
    \/ \E partial \in BOOLEAN : TargetBoardResolverRun(partial)

SpecResolver == InitUpgrade /\ [][NextResolver]_vars

ResolverReturned == call.op = "TargetBoardResolver"

(* The FQBN cannot be resolved on the package manager of the context.       *)
Unresolvable(pm, fqbn) ==
    \/ fqbn[1] \notin KnownPackages
    \/ fqbn[2] \notin PlatformsOf(pm)
    \/ fqbn[3] \notin BoardsOf(fqbn[2])
    \/ GetInstalledPlatformRelease(pm, fqbn[2]) = {}

(* C26: when the package, the platform or the board of the FQBN is unknown, *)
(* or the platform is not installed, the resolver step returns the          *)
(* resolution error, does not panic, and the build context is the one it    *)
(* was given.                                                               *)
C26_FailedResolutionLeavesContext ==
    (ResolverReturned /\ Unresolvable(PMof(cur.id), call.args)) =>
        /\ call.err = "Error resolving FQBN"
        /\ call.out = {cur}

(* A context that holds the result of an earlier resolution went through a  *)
(* failed one.                                                              *)
C26_Witness ==
    /\ ResolverReturned
    /\ Unresolvable(PMof(cur.id), call.args)
    /\ cur.TargetBoard # << >>
    /\ call.err # ""

-----------------------------------------------------------------------------
(* installToolIfMissing, as Init calls it.                                  *)

(* One iteration of the install loop of Init has run.                       *)
InstallToolStep == pc = "i_install" /\ cur.op = "Init" /\ cur' # cur

(* C27: installToolIfMissing on a tool that is installed sends no event,    *)
(* changes nothing and reports that nothing was installed; on a missing     *)
(* tool it sends the start event, downloads, sends the completed event and  *)
(* installs, in that order; after a failed download no install is           *)
(* attempted; it reports an installation only when the download and the     *)
(* install both succeeded.                                                  *)
C27_InstallToolIfMissingOrder ==
    [][InstallToolStep =>
        LET l == cur'.last[1]
            r == l.result
            n == Len(r.steps)
        IN  IF l.present
            THEN /\ r.steps = << >> /\ r.events = << >>
                 /\ ~r.installed /\ r.err = ""
                 /\ sink' = sink /\ oplog' = oplog /\ disk' = disk
                 /\ instances' = instances /\ dirs' = dirs
            ELSE /\ n \in {2, 4}
                 /\ r.steps[1] = <<"taskCB", "Downloading missing tool">>
                 /\ r.steps[2][1] = "DownloadToolRelease"
                 /\ r.steps[2][2] = (n = 4)
                 /\ n = 4 => /\ r.steps[3] = <<"taskCB", "Completed">>
                             /\ r.steps[4][1] = "InstallToolRelease"
                 /\ r.installed = (n = 4 /\ r.steps[2][2] /\ r.steps[4][2])
                 /\ r.installed = (r.err = "")
                 /\ l.tool \in disk'[DataOf(cur.id)].tools
                        \ disk[DataOf(cur.id)].tools => r.installed
    ]_vars

(* A missing builtin tool was downloaded and installed by the last          *)
(* iteration.                                                               *)
C27_Witness ==
    /\ cur.op = "Init" /\ Len(cur.last) = 1
    /\ ~cur.last[1].present
    /\ cur.last[1].result.installed

InstallSkipped ==
    cur.op = "Init" /\ Len(cur.last) = 1 /\ cur.last[1].present

-----------------------------------------------------------------------------
(* Init: the hardware is loaded, then loaded again after a tool install.    *)

(* Positions in the operation log of the hardware loads and of the          *)
(* operations on tools.                                                     *)
HardwareLoads == {k \in DOMAIN oplog : oplog[k][1] = "loadhardware"}
ToolOps == {k \in DOMAIN oplog : oplog[k][2] = "tool"}
ToolInstalledNow ==
    \E k \in DOMAIN oplog :
        oplog[k][1] = "install" /\ oplog[k][2] = "tool" /\ oplog[k][4]
ToolInstallFailed ==
    \E k \in DOMAIN oplog :
        oplog[k][1] \in {"install", "download"} /\ oplog[k][2] = "tool"
        /\ ~oplog[k][4]

(* C28: an Init that returned loaded the hardware once before any builtin   *)
(* tool was downloaded or installed, and loaded it a second time, after     *)
(* all of them, if and only if a builtin tool was installed during this     *)
(* Init; a tool whose installation failed does not change that.             *)
C28_ReloadIffToolInstalled ==
    InitReturned =>
        /\ Cardinality(HardwareLoads) = IF ToolInstalledNow THEN 2 ELSE 1
        /\ cur.loads = Cardinality(HardwareLoads)
        /\ \E first \in HardwareLoads : \A k \in ToolOps : first < k
        /\ ToolInstalledNow =>
               \E second \in HardwareLoads : \A k \in ToolOps : k < second

(* One tool failed to install, another was installed, and the hardware was  *)
(* loaded twice.                                                            *)
C28_Witness ==
    /\ InitReturned
    /\ ToolInstalledNow
    /\ ToolInstallFailed
    /\ Cardinality(HardwareLoads) = 2

-----------------------------------------------------------------------------
(* Install: the integrity check comes first.                                *)

(* The archive Install was called on was missing or altered in the cache,   *)
(* or the check of it returned an error.                                    *)
InstallCheckFails ==
    /\ InInstall
    /\ \/ cur.args[1] \notin cur.before.cache
       \/ cur.args[1] \in cur.before.corrupt
       \/ oplog[1] = <<"check", "archive", cur.args[1], FALSE>>

IntegrityErrors == {"TestingIntegrity", "CheckingIntegrity"}

(* C29: an Install whose integrity check returns an error or a mismatch     *)
(* has returned that error at once: no temporary directory was created,     *)
(* nothing was extracted, and the destination directory and its parent are  *)
(* as they were.                                                            *)
C29_IntegrityCheckedFirst ==
    InstallCheckFails =>
        /\ pc = "idle"
        /\ call.op = "Install" /\ call.err \in IntegrityErrors
        /\ cur.tempDir = << >>
        /\ dirs = cur.beforeDirs
        /\ Len(oplog) = 1
        /\ cur.seen = {cur.before.dest}
        /\ disk[ResourceDir].dest = cur.before.dest
        /\ disk[ResourceDir].cache = cur.before.cache

(* Install was called on an altered archive over an existing installation.  *)
C29_Witness ==
    /\ InstallCheckFails
    /\ cur.args[1] \in cur.before.corrupt
    /\ call.err = "CheckingIntegrity"
    /\ cur.before.dest = "prev"

-----------------------------------------------------------------------------
(* Upgrade: the installation of the new release fails.                      *)

(* The running transaction tried to install the new release and failed.     *)
PlatformInstallFailed ==
    /\ InTransaction
    /\ \E k \in DOMAIN TxnOps :
           TxnOps[k] = <<"install", "platform", cur.latest, FALSE>>

(* The tools the running transaction installed.                             *)
ToolsInstalledByTxn ==
    {TxnOps[k][3] : k \in {j \in DOMAIN TxnOps :
                              /\ TxnOps[j][1] = "install"
                              /\ TxnOps[j][2] = "tool" /\ TxnOps[j][4]}}

(* C30: when the installation of the new platform release fails, Upgrade    *)
(* has returned the install error and the failed installation is the last   *)
(* operation of the transaction: the tools it installed are still           *)
(* installed, the previous release is still installed, no tool was          *)
(* uninstalled and the post-install script was not run.                     *)
C30_FailedPlatformInstallAborts ==
    PlatformInstallFailed =>
        /\ pc = "idle"
        /\ call.op = "Upgrade" /\ call.err = "FailedInstall"
        /\ TxnOps[Len(TxnOps)] = <<"install", "platform", cur.latest, FALSE>>
        /\ \A k \in DOMAIN TxnOps :
               TxnOps[k][1] \notin {"uninstall", "postinstall"}
        /\ ToolsInstalledByTxn \subseteq disk[DataOf(cur.id)].tools
        /\ cur.installedRelease \in disk[DataOf(cur.id)].platforms
        /\ cur.installedRelease \in PMof(cur.id).installed
        /\ sink[Len(sink)] = <<"Error installing platform", cur.latest>>

(* The new release failed to install after a tool was installed for it.     *)
C30_Witness ==
    /\ PlatformInstallFailed
    /\ ToolsInstalledByTxn # {}
    /\ pc = "idle"

-----------------------------------------------------------------------------
(* Upgrade: the libraries.                                                  *)

LibraryOps == {k \in DOMAIN oplog : oplog[k][2] = "library"}

(* The releases Upgrade has to fetch: the updates of the user libraries it  *)
(* found at entry.                                                          *)
LibraryUpdates ==
    UNION {FindLibraryUpdate(cur.entryLM, l) :
              l \in {x \in cur.entryLM.libraries : x[3] = "user"}}

(* The release was among the user libraries when Upgrade was entered.       *)
HeldAtEntry(rel) ==
    \E l \in cur.entryLM.libraries :
        l[3] = "user" /\ l[1] = rel[1] /\ l[2] = rel[2]

(* What holds of the library operations at every point of an Upgrade.       *)
LibraryPolicyHolds ==
    InUpgrade =>
        /\ \A k \in LibraryOps :
              /\ oplog[k][3] \in LibraryUpdates
              /\ \A j \in DOMAIN oplog : oplog[j][2] # "library" => k < j
              /\ oplog[k][1] = "install" =>
                    /\ Before(oplog, k, <<"download", "library",
                                         oplog[k][3], TRUE>>)
                    /\ ~HeldAtEntry(oplog[k][3])
                    /\ Sent("Installing", oplog[k][3])
        /\ pc \notin {"u_libs", "idle"} =>
              /\ cur.libTodo = {}
              /\ \A rel \in LibraryUpdates :
                    /\ Did("download", "library", rel, TRUE)
                    /\ IF HeldAtEntry(rel)
                       THEN Sent("Already installed", rel)
                       ELSE /\ Did("install", "library", rel, TRUE)
                            /\ Sent("Installed", rel)
        /\ \A rel \in LibraryUpdates :
              Sent("Already installed", rel) => HeldAtEntry(rel)

(* C31: Upgrade downloads and installs only updates of user libraries, the  *)
(* download of a release before its install, and all of them before the     *)
(* first operation on a tool or a platform; an installed release replaces   *)
(* the other copies of the library; a release found already installed gets  *)
(* the "Already installed" note and no install, and the loop goes on with   *)
(* the next library without an error.                                       *)
C31_LibraryUpgradePolicy ==
    [][/\ LibraryPolicyHolds'
       /\ (pc = "u_libs" /\ sink' # sink) =>
            LET e == sink'[Len(sink')]
            IN  /\ e[1] = "Already installed" =>
                      /\ pc' = "u_libs" /\ call' = call
                      /\ disk'[DataOf(cur.id)].libs = disk[DataOf(cur.id)].libs
                /\ e[1] = "Installed" =>
                      {l \in disk'[DataOf(cur.id)].libs : l[1] = e[2][1]} = {e[2]}
      ]_vars

(* A library was replaced by its update and the platform loop was reached.  *)
C31_Witness ==
    /\ InUpgrade /\ pc = "u_plats"
    /\ Did("install", "library", <<"libL", 2>>, TRUE)
    /\ disk[DataOf(cur.id)].libs = {<<"libL", 2>>}

LibrarySkipped ==
    InUpgrade /\ pc = "u_plats" /\ Sent("Already installed", <<"libL", 2>>)

-----------------------------------------------------------------------------
(* UpdateLibrariesIndex: the stored index and its signature.                *)

(* An UpdateLibrariesIndex that created its temporary folder is running,    *)
(* or is the last handler that returned.                                    *)
InLibrariesIndex ==
    cur.op = "UpdateLibrariesIndex" /\ (pc = "idle" => oplog # << >>)

(* The stored library index and signature, now and at entry; "none" for a   *)
(* file that does not exist.                                                *)
StoredLabel(d, name) ==
    IF name \in DOMAIN d.stored THEN d.stored[name] ELSE "none"
LibraryPair(d) ==
    <<StoredLabel(d, "library_index"), StoredLabel(d, SigName("library_index"))>>

(* A download failed, or the extraction or the signature check did.         *)
LibraryFetchFailed ==
    \/ \E k \in DOMAIN sink : sink[k][1] = "download" /\ ~sink[k][3]
    \/ oplog # << >> /\ ~oplog[1][4]

(* C32: UpdateLibrariesIndex changes the stored library index and its       *)
(* signature only after the downloads, the extraction and the signature     *)
(* check all passed; when one of them fails the call returns the error and  *)
(* both stored files are what they were.                                    *)
C32_LibraryIndexKeptOnFetchFailure ==
    InLibrariesIndex =>
        /\ LibraryPair(disk[DataOf(cur.id)]) # LibraryPair(AtIndexEntry) =>
               /\ oplog[1] = <<"verify", "signature", "library_index", TRUE>>
               /\ ~LibraryFetchFailed
        /\ LibraryFetchFailed =>
               /\ pc = "idle"
               /\ call.op = "UpdateLibrariesIndex"
               /\ call.err \in {"FailedDownload", "PermissionDenied",
                                "SignatureVerificationFailed"}
               /\ Len(oplog) = 1
               /\ LibraryPair(disk[DataOf(cur.id)]) = LibraryPair(AtIndexEntry)

(* The signature check failed on an instance that has a stored pair.        *)
C32_Witness ==
    /\ InLibrariesIndex /\ pc = "idle"
    /\ call.err = "SignatureVerificationFailed"
    /\ LibraryPair(disk[DataOf(cur.id)]) = <<"old", "old">>


(* C37: when UpdateLibrariesIndex has returned, with or without an error,   *)
(* the stored library index and the stored signature are the pair that was  *)
(* there at entry or the new pair.                                          *)
C37_LibraryIndexPairMatches ==
    (InLibrariesIndex /\ pc = "idle") =>
        LibraryPair(disk[DataOf(cur.id)]) \in
            {LibraryPair(AtIndexEntry), <<"new", "new">>}

-----------------------------------------------------------------------------
(* The build core the resolver step derives.                                *)

Colons(s) == {i \in DOMAIN s : s[i] = ":"}

(* C33: after a successful resolver step the build core is "arduino" when   *)
(* the merged property build.core is empty or missing, the property itself  *)
(* when it holds no colon, and what follows its first colon otherwise; it   *)
(* is empty only when the property ends in a colon; and the properties of   *)
(* the target board are the merged build properties.                        *)
C33_BuildCoreDerivation ==
    (ResolverReturned /\ call.err = "") =>
        LET merged == MergedProperties(call.args[2], call.args[3])
            v == Get(merged, "build.core")
            core == cur.BuildCore
        IN  /\ cur.TargetBoard[3] = merged
            /\ v = << >> => core = Arduino
            /\ (v # << >> /\ Colons(v) = {}) => core = v
            /\ Colons(v) # {} =>
                  \E i \in Colons(v) :
                      /\ \A j \in Colons(v) : i <= j
                      /\ Len(core) = Len(v) - i
                      /\ \A k \in DOMAIN core : core[k] = v[i + k]
            /\ core = << >> => (v # << >> /\ v[Len(v)] = ":")

(* A board whose build.core has two colons was resolved.                    *)
C33_Witness ==
    /\ ResolverReturned /\ call.err = ""
    /\ Get(cur.TargetBoard[3], "build.core") = <<"v", ":", "c", ":", "d">>
    /\ cur.BuildCore = <<"c", ":", "d">>

CoreEmptied ==
    ResolverReturned /\ call.err = "" /\ cur.BuildCore = << >>

-----------------------------------------------------------------------------
(* Upgrade: what a nil result means.                                        *)

(* C34: when Upgrade returns nil, every platform that was outdated at entry *)
(* has its latest release installed and the release it had uninstalled.     *)
C34_SuccessMeansUpgraded ==
    (InUpgrade /\ Returned /\ call.err = "") =>
        \A new \in OutdatedAtEntry :
            /\ new \in disk[DataOf(cur.id)].platforms
            /\ GetInstalledPlatformRelease(cur.entry, new[1]) \cap
                   disk[DataOf(cur.id)].platforms = {}


(* Positions in the operation log of the rollbacks that succeeded: the      *)
(* uninstall of a release this Upgrade had installed.                       *)
RolledBack ==
    {j \in DOMAIN oplog :
        /\ oplog[j][1] = "uninstall" /\ oplog[j][2] = "platform" /\ oplog[j][4]
        /\ Before(oplog, j, <<"install", "platform", oplog[j][3], TRUE>>)}

(* C35: after a rollback uninstalled the new release, Upgrade does not run  *)
(* the post-install script of that release and uninstalls no tool for that  *)
(* upgrade.                                                                 *)
C35_NoCleanupAfterRollback ==
    InUpgrade =>
        \A j \in RolledBack : \A k \in DOMAIN oplog :
            k > j =>
                /\ ~(oplog[k][1] = "postinstall" /\ oplog[k][3] = oplog[j][3])
                /\ k = j + 1 => ~(oplog[k][1] = "uninstall" /\ oplog[k][2] = "tool")

-----------------------------------------------------------------------------
(* Upgrade: the tools of the installed platform releases.                   *)

(* Every platform release installed in the data directory d has each of     *)
(* its tool dependencies installed there.                                   *)
DependenciesInstalled(d) ==
    \A r \in d.platforms : Range(Dependencies(r)) \subseteq d.tools

-----------------------------------------------------------------------------
(* The order of the platform loop.  Upgrade ranges over the map             *)
(* pm.Packages and over the map of each package's platforms, so the order   *)
(* in which the outdated platforms are visited is any order:                *)
(* UpgradePlatform takes any platform not yet visited.                      *)

(* The releases Upgrade replaces, and the installed platform releases and   *)
(* tools it is to end with, from the state at the call alone.               *)
ReplacedAtEntry ==
    UNION {GetInstalledPlatformRelease(cur.entry, new[1]) : new \in OutdatedAtEntry}

UpgradedPlatforms == (cur.entry.installed \ ReplacedAtEntry) \cup OutdatedAtEntry

UpgradedTools ==
    (cur.entry.installedTools \cup ToolsNeeded(OutdatedAtEntry)) \
        (ToolsNeeded(ReplacedAtEntry) \ ToolsNeeded(UpgradedPlatforms))

(* The position in the log of the install of a release of the platform.     *)
InstalledAt(platform) ==
    {j \in DOMAIN oplog : /\ oplog[j][1] = "install" /\ oplog[j][2] = "platform"
                          /\ oplog[j][3][1] = platform}

(* C38: when Upgrade has returned nil and no step failed, the platform      *)
(* releases and the tools installed are the ones determined by the state    *)
(* at the call, whichever order the platforms were visited in.              *)
C38_VisitOrderIrrelevant ==
    (InUpgrade /\ Returned /\ NoFailure) =>
        /\ disk[DataOf(cur.id)].platforms = UpgradedPlatforms
        /\ disk[DataOf(cur.id)].tools = UpgradedTools

(* arch1 and arch2, which share toolX, were both outdated; arch2 was        *)
(* upgraded first and no step failed.                                       *)
C38_Witness ==
    /\ InUpgrade /\ Returned /\ NoFailure
    /\ OutdatedAtEntry = {<<"arch1", 2>>, <<"arch2", 2>>}
    /\ \E j \in InstalledAt("arch2"), k \in InstalledAt("arch1") : j < k

(* The same, arch1 first.                                                   *)
VisitedInOrder ==
    /\ InUpgrade /\ Returned /\ NoFailure
    /\ OutdatedAtEntry = {<<"arch1", 2>>, <<"arch2", 2>>}
    /\ \E j \in InstalledAt("arch1"), k \in InstalledAt("arch2") : j < k


-----------------------------------------------------------------------------
(* Outdated while Init is running.  Neither handler takes a lock: an        *)
(* Outdated request of another connection is served between two steps of    *)
(* Init and reads the package manager as Init has left it so far.           *)

(* A whole Outdated of another request, served in between.                  *)
OutdatedOverlapping(id) ==
    /\ pc # "idle"
    /\ call' = IF OutdatedResolve(id) # ""
               THEN [op |-> "Outdated", id |-> {id}, dead |-> Dead(id),
                     args |-> << >>, err |-> OutdatedResolve(id), out |-> {}]
               ELSE [op |-> "Outdated", id |-> {id}, dead |-> FALSE,
                     args |-> << >>, err |-> "",
                     out |-> {[OutdatedLibraries |->
                                  OutdatedLibraries(LMof(id)),
                               OutdatedPlatforms |->
                                  OutdatedPlatforms(PMof(id))]}]
    /\ pc' = pc
    /\ OutdatedFrame(id)
    /\ UNCHANGED <<cur, sink, oplog>>

NextInitOutdated ==
    \/ NextInit
    \/ \E id \in {1, 2} : OutdatedOverlapping(id)

SpecInitOutdated == InitInit /\ [][NextInitOutdated]_vars

(* The package manager of the instance before the running Init cleared it:  *)
(* the one the previous Init left, or the empty one of Create.              *)
GraphBeforeInit ==
    IF snap = << >> THEN EmptyPM ELSE snap[Len(snap)].pm

(* The package manager the running Init ends with: the indexes and the      *)
(* platforms of the data directory, which no step of Init changes.          *)
GraphAfterInit ==
    InitRun(instances[cur.id], disk[DataOf(cur.id)]).inst.packageManager

(* An Outdated on the instance of the running Init has returned a response. *)
OutdatedDuringInit ==
    /\ pc # "idle" /\ cur.op = "Init"
    /\ call.op = "Outdated" /\ call.id = {cur.id} /\ call.err = ""

(* C39: the platforms an Outdated reports while an Init runs on the same    *)
(* instance are the ones it would report before that Init or the ones it    *)
(* would report after it.                                                   *)
C39_OutdatedBeforeOrAfterInit ==
    OutdatedDuringInit =>
        \A resp \in call.out :
            resp.OutdatedPlatforms \in {OutdatedPlatforms(GraphBeforeInit),
                                        OutdatedPlatforms(GraphAfterInit)}


-----------------------------------------------------------------------------
(* The outdated command (cli/outdated/outdated.go): it takes an instance,   *)
(* calls Outdated on it, reports an error if there is one, and prints the   *)
(* table of the outdated platforms and the table of the outdated            *)
(* libraries.  outdatedResp is the set holding the response, empty for nil. *)

(* What Outdated returns for the instance.                                  *)
OutdatedReturn(id) ==
    IF OutdatedResolve(id) # ""
    THEN [err |-> OutdatedResolve(id), out |-> {}]
    ELSE [err |-> "",
          out |-> {[OutdatedLibraries |-> OutdatedLibraries(LMof(id)),
                    OutdatedPlatforms |-> OutdatedPlatforms(PMof(id))]}]

(* inst := instance.CreateAndInit(); outdatedResp, err := Outdated(inst).   *)
runOutdatedCommand(inst) ==
    /\ pc = "idle"
    /\ call = NoCall
    /\ call' = [op |-> "Outdated", id |-> {inst}, dead |-> Dead(inst),
                args |-> << >>, err |-> OutdatedReturn(inst).err,
                out |-> OutdatedReturn(inst).out]
    /\ cur' = [op |-> "outdated", id |-> inst, args |-> << >>,
               outdatedResp |-> OutdatedReturn(inst).out,
               err |-> OutdatedReturn(inst).err]
    /\ pc' = IF OutdatedReturn(inst).err # "" THEN "o_error" ELSE "o_platforms"
    /\ sink' = << >>
    /\ oplog' = << >>
    /\ OutdatedFrame(inst)

(* Where the command goes on after feedback.Errorf: there is no return and  *)
(* no exit in the branch.                                                   *)
StageAfterErrorReturn == "idle"

StageAfterError == "o_platforms"

(* if err != nil { feedback.Errorf(...) }                                   *)
CommandReportError ==
    /\ pc = "o_error"
    /\ sink' = Append(sink, <<"Error retrieving outdated cores and libraries",
                              cur.err>>)
    /\ pc' = StageAfterError
    /\ IF StageAfterError = "idle"
       THEN call' = [op |-> cur.op, id |-> {cur.id}, dead |-> FALSE,
                     args |-> cur.args, err |-> cur.err, out |-> {}]
       ELSE UNCHANGED call
    /\ UNCHANGED <<instances, instancesCount, dirs, disk, cur, oplog, created,
                   destroyed, snap>>

(* A list of the response is read: a nil response makes the read a nil      *)
(* pointer dereference, and the command panics; a list that is not empty    *)
(* is printed as a table.                                                   *)
CommandPrint(stage, list, next) ==
    /\ pc = stage
    /\ oplog' = Append(oplog, <<"read", "response", list, cur.outdatedResp # {}>>)
    /\ IF cur.outdatedResp = {}
       THEN Return("panic") /\ UNCHANGED sink
       ELSE /\ sink' = sink \o
                  (LET resp == CHOOSE r \in cur.outdatedResp : TRUE
                       rows == IF list = "OutdatedPlatforms"
                               THEN resp.OutdatedPlatforms
                               ELSE resp.OutdatedLibraries
                   IN IF rows = {} THEN << >> ELSE << <<"table", rows>> >>)
            /\ IF next = "idle" THEN Return("")
               ELSE pc' = next /\ UNCHANGED call
    /\ UNCHANGED <<instances, instancesCount, dirs, disk, cur, created,
                   destroyed, snap>>

CommandPrintPlatforms ==
    CommandPrint("o_platforms", "OutdatedPlatforms", "o_libraries")

CommandPrintLibraries ==
    CommandPrint("o_libraries", "OutdatedLibraries", "idle")

NextCommand ==
    \/ \E inst \in IdInputs : runOutdatedCommand(inst)
    \/ CommandReportError
    \/ CommandPrintPlatforms
    \/ CommandPrintLibraries

SpecCommand == InitUpgrade /\ [][NextCommand]_vars

(* C40: once Outdated has returned an error to the command, the command     *)
(* reads neither list of the response.                                      *)
C40_ResponseUnusedAfterError ==
    (cur.op = "outdated" /\ cur.err # "") =>
        \A j \in DOMAIN oplog : oplog[j][1] # "read"

=============================================================================
